---- MODULE Spec2Model ----
(***************************************************************************)
(* The encrypted, chunk-framed write-ahead log of lotusdb (twinstore):     *)
(* segment files of CRC-framed chunks in fixed-size blocks, one nonce file *)
(* of fixed-width nonces, and the WAL that owns them.                      *)
(*                                                                         *)
(* Files are byte sequences (bytes are the integers 0..255).  The block    *)
(* size is scaled down from 32 KiB so that block boundaries, padding and   *)
(* multi-block records occur within a few short writes; every formula of   *)
(* the framing is written in terms of blockSize, as in the source.         *)
(***************************************************************************)
EXTENDS Integers, Sequences, FiniteSets, TLC

(***************************************************************************)
(* Bounds of the model.                                                    *)
(***************************************************************************)
\* stands for blockSize = 32 * KB of the source, scaled down
blockSize == 16
\* Options.SegmentSize of the WAL under study
SegmentSize == 52
\* the most records the callers hand to the WAL (written or buffered)
MaxRecords == 3
\* the most segment files the WAL may create
MaxSegments == 3

(***************************************************************************)
(* Program constants.                                                      *)
(***************************************************************************)
chunkHeaderSize == 7
nonceSize == 12
initialSegmentFileID == 1
ChunkTypeFull == 0
ChunkTypeFirst == 1
ChunkTypeMiddle == 2
ChunkTypeLast == 3

(***************************************************************************)
(* Inputs: payloads of two lengths (one that fits a chunk, one that takes  *)
(* two or three chunks over block ends) and 12-byte nonces.  The WAL       *)
(* never looks into a payload or a nonce, so the k-th record handed to it  *)
(* carries the tag k in every byte: any two records, and any two nonces,   *)
(* differ byte by byte.                                                    *)
(***************************************************************************)
DataLens == {1, blockSize - 5}
MkData(tag, len) == [i \in 1..len |-> (tag * 16 + i) % 256]
MkNonce(tag) == [i \in 1..nonceSize |-> (128 + tag * 16 + i) % 256]
DataSet(tag) == {MkData(tag, l) : l \in DataLens}
NonceSet(tag) == {MkNonce(tag)}
\* what a pooled block buffer may hold before a read fills it
StaleBytes == {0, 255}

(***************************************************************************)
(* Byte-level helpers.                                                     *)
(***************************************************************************)
Zeros(n) == [i \in 1..n |-> 0]
\* Go's b[lo:hi] (0-based, hi exclusive) of a sequence
Slice(b, lo, hi) == SubSeq(b, lo + 1, hi)
PutUint16(v) == <<v % 256, (v \div 256) % 256>>
PutUint32(v) == <<v % 256, (v \div 256) % 256, (v \div 65536) % 256, (v \div 16777216) % 256>>
Uint16(b) == b[1] + 256 * b[2]

\* crc32.Update: the checksum of a byte string, continued from sum.  The
\* IEEE polynomial is replaced by a polynomial hash modulo a prime, which
\* keeps what the WAL relies on: Update(Checksum(a), b) = Checksum(a \o b),
\* and two strings of the same length that differ in one byte have
\* different sums.
RECURSIVE crc32Update(_, _)
crc32Update(sum, p) ==
    IF p = <<>> THEN sum
    ELSE crc32Update((sum * 257 + Head(p) + 1) % 8355961, Tail(p))
ChecksumIEEE(p) == crc32Update(0, p)

(***************************************************************************)
(* Segment: framing on write (segment.writeToBuffer and its callers).      *)
(* A segment object is [id, currentBlockNumber, currentBlockSize, closed]. *)
(***************************************************************************)
NilPos == [isNil |-> TRUE]
ChunkPosition(sid, bn, off, size, vnum) ==
    [SegmentId |-> sid, BlockNumber |-> bn, ChunkOffset |-> off,
     ChunkSize |-> size, ValueNum |-> vnum]

Size(seg) == seg.currentBlockNumber * blockSize + seg.currentBlockSize

\* header (crc, length, type) followed by the payload, appended to buf
\* every chunk marked as a Full chunk
appendChunkBufferAsFull(buf, data, chunkType) ==
    LET lenType == PutUint16(Len(data) % 65536) \o <<ChunkTypeFull>>
        sum == crc32Update(ChecksumIEEE(lenType), data)
    IN  buf \o PutUint32(sum) \o lenType \o data

appendChunkBuffer(buf, data, chunkType) ==
    LET lenType == PutUint16(Len(data) % 65536) \o <<chunkType>>
        sum == crc32Update(ChecksumIEEE(lenType), data)
    IN  buf \o PutUint32(sum) \o lenType \o data

\* the loop with the room of a block taken without the chunk header
RECURSIVE chunkLoopNoHeader(_, _, _, _, _)
chunkLoopNoHeader(data, leftSize, blockCount, currBlockSize, buf) ==
    IF leftSize <= 0 THEN [buf |-> buf, blockCount |-> blockCount]
    ELSE
        LET dataSize == Len(data)
            room == blockSize - currBlockSize
            chunkSize == IF room > leftSize THEN leftSize ELSE room
            chunkType == IF leftSize = dataSize THEN ChunkTypeFirst
                         ELSE IF leftSize = chunkSize THEN ChunkTypeLast
                         ELSE ChunkTypeMiddle
        IN  chunkLoopNoHeader(data, leftSize - chunkSize, blockCount + 1,
                (currBlockSize + chunkSize + chunkHeaderSize) % blockSize,
                appendChunkBuffer(buf, Slice(data, dataSize - leftSize,
                                             dataSize - leftSize + chunkSize), chunkType))

\* the "for leftSize > 0" loop of writeToBuffer: First, Middle.., Last
RECURSIVE chunkLoop(_, _, _, _, _)
chunkLoop(data, leftSize, blockCount, currBlockSize, buf) ==
    IF leftSize <= 0 THEN [buf |-> buf, blockCount |-> blockCount]
    ELSE
        LET dataSize == Len(data)
            room == blockSize - currBlockSize - chunkHeaderSize
            chunkSize == IF room > leftSize THEN leftSize ELSE room
            end0 == dataSize - leftSize + chunkSize
            end == IF end0 > dataSize THEN dataSize ELSE end0
            chunkType == IF leftSize = dataSize THEN ChunkTypeFirst
                         ELSE IF leftSize = chunkSize THEN ChunkTypeLast
                         ELSE ChunkTypeMiddle
        IN  chunkLoop(data, leftSize - chunkSize, blockCount + 1,
                      (currBlockSize + chunkSize + chunkHeaderSize) % blockSize,
                      appendChunkBuffer(buf, Slice(data, dataSize - leftSize, end), chunkType))

\* padding one byte before the header stops fitting
needPaddingEarly(seg) ==
    /\ seg.currentBlockSize + chunkHeaderSize + 1 >= blockSize
    /\ seg.currentBlockSize < blockSize

\* the padding decision at the head of writeToBuffer
needPadding(seg) ==
    /\ seg.currentBlockSize + chunkHeaderSize >= blockSize
    /\ seg.currentBlockSize < blockSize

\* segment.writeToBuffer: the position of the record, its chunks appended
\* to chunkBuffer, and the segment with its block counters advanced
writeToBuffer(seg, data, chunkBuffer) ==
    IF seg.closed
    THEN [err |-> "ErrClosed", seg |-> seg, buf |-> chunkBuffer, pos |-> NilPos]
    ELSE
        LET pad == needPadding(seg)
            padding == IF pad THEN blockSize - seg.currentBlockSize ELSE 0
            bn1 == IF pad THEN seg.currentBlockNumber + 1 ELSE seg.currentBlockNumber
            bs1 == IF pad THEN 0 ELSE seg.currentBlockSize
            dataSize == Len(data)
            \* the size check and the update of the segment status
            done(chunkSize, buf2) ==
                IF chunkSize + padding # Len(buf2) - Len(chunkBuffer)
                THEN [err |-> "ErrWrongSize", buf |-> buf2, pos |-> NilPos,
                      seg |-> [seg EXCEPT !.currentBlockNumber = bn1, !.currentBlockSize = bs1]]
                ELSE [err |-> "nil", buf |-> buf2,
                      pos |-> ChunkPosition(seg.id, bn1, bs1, chunkSize, 0),
                      seg |-> [seg EXCEPT
                                  !.currentBlockNumber = bn1 + ((bs1 + chunkSize) \div blockSize),
                                  !.currentBlockSize = (bs1 + chunkSize) % blockSize]]
            split(loop) == done(loop.blockCount * chunkHeaderSize + dataSize, loop.buf)
        IN  IF bs1 + dataSize + chunkHeaderSize <= blockSize
            THEN done(dataSize + chunkHeaderSize,
                      appendChunkBuffer(chunkBuffer \o Zeros(padding), data, ChunkTypeFull))
            ELSE split(chunkLoop(data, dataSize, 0, bs1, chunkBuffer \o Zeros(padding)))

(***************************************************************************)
(* File writes.  NoFault: the write succeeds; Fault(k): the write fails    *)
(* with an I/O error after k of its bytes reached the file.                *)
(***************************************************************************)
NoFault == [fails |-> FALSE, n |-> 0]
Fault(k) == [fails |-> TRUE, n |-> k]
fdWrite(file, b, fault) ==
    IF ~fault.fails THEN [err |-> "nil", file |-> file \o b]
    ELSE [err |-> "EIO",
          file |-> file \o SubSeq(b, 1, IF fault.n < Len(b) THEN fault.n ELSE Len(b))]

\* writeChunkBuffer that leaves the cached block as it is
writeChunkBufferNoReset(seg, file, buf, fault) ==
    LET wrote(f) == [err |-> f.err, file |-> f.file, seg |-> seg]
    IN  IF seg.currentBlockSize > blockSize
        THEN [err |-> "ErrBlockSize", file |-> file, seg |-> seg]
        ELSE wrote(fdWrite(file, buf, fault))

\* segment.writeChunkBuffer
writeChunkBuffer(seg, file, buf, fault) ==
    LET wrote(f) ==
            IF f.err # "nil"
            THEN [err |-> f.err, file |-> f.file, seg |-> seg]
            \* the cached block is not valid any more
            ELSE [err |-> "nil", file |-> f.file,
                  seg |-> [seg EXCEPT !.startupBlock.blockNumber = -1]]
    IN  IF seg.currentBlockSize > blockSize
        THEN [err |-> "ErrBlockSize", file |-> file, seg |-> seg]
        ELSE wrote(fdWrite(file, buf, fault))

\* segment.Write: on any error the block counters are restored
segmentWrite(seg, file, data, fault) ==
    LET flushed(w, f) ==
            IF f.err # "nil"
            THEN [err |-> f.err, seg |-> seg, file |-> f.file, pos |-> NilPos]
            ELSE [err |-> "nil", seg |-> f.seg, file |-> f.file, pos |-> w.pos]
        framed(w) ==
            IF w.err # "nil"
            THEN [err |-> w.err, seg |-> seg, file |-> file, pos |-> NilPos]
            ELSE flushed(w, writeChunkBuffer(w.seg, file, w.buf, fault))
    IN  IF seg.closed
        THEN [err |-> "ErrClosed", seg |-> seg, file |-> file, pos |-> NilPos]
        ELSE framed(writeToBuffer(seg, data, <<>>))

\* the loop of segment.writeAll over the batch, filling one chunk buffer
RECURSIVE writeAllLoop(_, _, _, _, _)
writeAllLoop(seg, data, i, chunkBuffer, positions) ==
    LET framed(w) ==
            IF w.err # "nil"
            THEN [err |-> w.err, seg |-> w.seg, buf |-> w.buf, positions |-> positions]
            ELSE writeAllLoop(w.seg, data, i + 1, w.buf, Append(positions, w.pos))
    IN  IF i > Len(data)
        THEN [err |-> "nil", seg |-> seg, buf |-> chunkBuffer, positions |-> positions]
        ELSE framed(writeToBuffer(seg, data[i], chunkBuffer))

\* segment.writeAll without the deferred restore of the block counters
segmentWriteAllNoRestore(seg, file, data, fault) ==
    LET flushed(w, f) ==
            IF f.err # "nil"
            THEN [err |-> f.err, seg |-> w.seg, file |-> f.file, positions |-> <<>>]
            ELSE [err |-> "nil", seg |-> f.seg, file |-> f.file, positions |-> w.positions]
        framed(w) ==
            IF w.err # "nil"
            THEN [err |-> w.err, seg |-> w.seg, file |-> file, positions |-> <<>>]
            ELSE flushed(w, writeChunkBuffer(w.seg, file, w.buf, fault))
    IN  IF seg.closed
        THEN [err |-> "ErrClosed", seg |-> seg, file |-> file, positions |-> <<>>]
        ELSE framed(writeAllLoop(seg, data, 1, <<>>, <<>>))

\* segment.writeAll
segmentWriteAll(seg, file, data, fault) ==
    LET flushed(w, f) ==
            IF f.err # "nil"
            THEN [err |-> f.err, seg |-> seg, file |-> f.file, positions |-> <<>>]
            ELSE [err |-> "nil", seg |-> f.seg, file |-> f.file, positions |-> w.positions]
        framed(w) ==
            IF w.err # "nil"
            THEN [err |-> w.err, seg |-> seg, file |-> file, positions |-> <<>>]
            ELSE flushed(w, writeChunkBuffer(w.seg, file, w.buf, fault))
    IN  IF seg.closed
        THEN [err |-> "ErrClosed", seg |-> seg, file |-> file, positions |-> <<>>]
        ELSE framed(writeAllLoop(seg, data, 1, <<>>, <<>>))

(***************************************************************************)
(* Segment: reading a chunk chain (segment.readInternal).                  *)
(* "panic" is Go's run-time panic (slice bounds out of range, nil          *)
(* dereference): the call does not return.                                 *)
(***************************************************************************)
readFail(e) == [err |-> e, value |-> <<>>, next |-> NilPos]

\* nextChunk without the step over the padding at the end of a block
nextChunkInBlock(id, blockNumber, checksumEnd) ==
    ChunkPosition(id, blockNumber, checksumEnd, 0, 0)

\* the position that follows a chunk ending at checksumEnd in blockNumber
nextChunk(id, blockNumber, checksumEnd) ==
    IF checksumEnd + chunkHeaderSize >= blockSize
    THEN ChunkPosition(id, blockNumber + 1, 0, 0, 0)
    ELSE ChunkPosition(id, blockNumber, checksumEnd, 0, 0)

\* whether the saved sum of the chunk at chunkOffset equals the sum of
\* its length, type and payload bytes
checksumMatches(block, chunkOffset, checksumEnd) ==
    Slice(block, chunkOffset, chunkOffset + 4)
        = PutUint32(ChecksumIEEE(Slice(block, chunkOffset + 4, checksumEnd)))

\* one turn of the loop of readInternal; block is the buffer as the
\* previous turn left it
RECURSIVE readLoop(_, _, _, _, _, _)
readLoop(seg, file, blockNumber, chunkOffset, result, block) ==
    LET offset == blockNumber * blockSize
        size == IF blockSize + offset > Size(seg) THEN Size(seg) - offset ELSE blockSize
        start == chunkOffset + chunkHeaderSize
        parse(blk, checksumEnd) ==
            \* block[start : start+length]
            IF checksumEnd > blockSize THEN readFail("panic")
            ELSE IF ~checksumMatches(blk, chunkOffset, checksumEnd)
            THEN readFail("ErrInvalidCRC")
            ELSE IF blk[chunkOffset + 7] = ChunkTypeFull \/ blk[chunkOffset + 7] = ChunkTypeLast
            THEN [err |-> "nil", value |-> result \o Slice(blk, start, checksumEnd),
                  next |-> nextChunk(seg.id, blockNumber, checksumEnd)]
            ELSE readLoop(seg, file, blockNumber + 1, 0,
                          result \o Slice(blk, start, checksumEnd), blk)
        filled(blk) ==
            \* block[chunkOffset : chunkOffset+chunkHeaderSize]
            IF chunkOffset < 0 \/ start > blockSize THEN readFail("panic")
            ELSE parse(blk, start + Uint16(Slice(blk, chunkOffset + 4, chunkOffset + 6)))
    IN  IF chunkOffset >= size THEN readFail("EOF")
        \* fd.ReadAt(block[0:size], offset) reads fewer than size bytes
        ELSE IF offset + size > Len(file) THEN readFail("EOF")
        ELSE filled(SubSeq(file, offset + 1, offset + size) \o SubSeq(block, size + 1, blockSize))

\* stale is what the pooled block buffer holds when the read starts
readInternal(seg, file, blockNumber, chunkOffset, stale) ==
    IF seg.closed THEN readFail("ErrClosed")
    ELSE readLoop(seg, file, blockNumber, chunkOffset, <<>>, [i \in 1..blockSize |-> stale])

\* segment.Read
segmentRead(seg, file, blockNumber, chunkOffset, stale) ==
    readInternal(seg, file, blockNumber, chunkOffset, stale)

\* segmentReader.Next on the reader sr = [id, blockNumber, chunkOffset]
segmentReaderNext(sr, seg, file, stale) ==
    LET got(r) ==
            IF r.err # "nil"
            THEN [err |-> r.err, value |-> <<>>, pos |-> NilPos, sr |-> sr]
            ELSE [err |-> "nil", value |-> r.value,
                  pos |-> ChunkPosition(seg.id, sr.blockNumber, sr.chunkOffset,
                              r.next.BlockNumber * blockSize + r.next.ChunkOffset
                                  - (sr.blockNumber * blockSize + sr.chunkOffset), 0),
                  sr |-> [sr EXCEPT !.blockNumber = r.next.BlockNumber,
                                    !.chunkOffset = r.next.ChunkOffset]]
    IN  IF seg.closed
        THEN [err |-> "ErrClosed", value |-> <<>>, pos |-> NilPos, sr |-> sr]
        ELSE got(readInternal(seg, file, sr.blockNumber, sr.chunkOffset, stale))

(***************************************************************************)
(* Nonce file: nf = [curNum, closed], bytes = the file's content.          *)
(***************************************************************************)
nonceFdWrite(nf, bytes, nonce, fault) ==
    IF nf.closed THEN [err |-> "ErrFileClosed", file |-> bytes]
    ELSE fdWrite(bytes, nonce, fault)

\* nonceFile.Write
nonceFileWrite(nf, bytes, nonce, position, fault) ==
    LET wrote(f) ==
            IF f.err # "nil"
            THEN [err |-> f.err, nf |-> nf, bytes |-> f.file, pos |-> position]
            ELSE [err |-> "nil", nf |-> [nf EXCEPT !.curNum = @ + 1], bytes |-> f.file,
                  pos |-> [position EXCEPT !.ValueNum = nf.curNum]]
    IN  IF Len(nonce) = 0
        THEN [err |-> "nil", nf |-> nf, bytes |-> bytes, pos |-> position]
        ELSE wrote(nonceFdWrite(nf, bytes, nonce, fault))

\* nonceFile.writeAll from index i on; faultAt = the index whose write
\* fails (0: none)
RECURSIVE nonceFileWriteAll(_, _, _, _, _, _, _)
nonceFileWriteAll(nf, bytes, nonce, positions, i, faultAt, fault) ==
    LET wrote(f) ==
            IF f.err # "nil"
            THEN [err |-> f.err, nf |-> nf, bytes |-> f.file, positions |-> positions]
            \* positions[i] beyond the end of positions
            ELSE IF i > Len(positions)
            THEN [err |-> "panic", nf |-> nf, bytes |-> f.file, positions |-> positions]
            ELSE nonceFileWriteAll([nf EXCEPT !.curNum = @ + 1], f.file, nonce,
                                   [positions EXCEPT ![i].ValueNum = nf.curNum],
                                   i + 1, faultAt, fault)
    IN  IF i > Len(nonce)
        THEN [err |-> "nil", nf |-> nf, bytes |-> bytes, positions |-> positions]
        ELSE wrote(nonceFdWrite(nf, bytes, nonce[i], IF i = faultAt THEN fault ELSE NoFault))

\* nonceReadAt with the ordinal taken for the byte offset
nonceReadAtUnscaled(nf, bytes, valueNum) ==
    IF nf.closed THEN [err |-> "ErrFileClosed", n |-> 0, nonce |-> <<>>]
    ELSE IF valueNum + nonceSize > Len(bytes)
    THEN [err |-> "EOF", n |-> IF Len(bytes) > valueNum THEN Len(bytes) - valueNum ELSE 0,
          nonce |-> <<>>]
    ELSE [err |-> "nil", n |-> nonceSize,
          nonce |-> SubSeq(bytes, valueNum + 1, valueNum + nonceSize)]

\* fd.ReadAt(nonce, valueNum * nonceSize) on the nonce file
nonceReadAt(nf, bytes, valueNum) ==
    LET off == valueNum * nonceSize
    IN  IF nf.closed THEN [err |-> "ErrFileClosed", n |-> 0, nonce |-> <<>>]
        ELSE IF off < 0 THEN [err |-> "EINVAL", n |-> 0, nonce |-> <<>>]
        ELSE IF off + nonceSize > Len(bytes)
        THEN [err |-> "EOF", n |-> IF Len(bytes) > off THEN Len(bytes) - off ELSE 0,
              nonce |-> <<>>]
        ELSE [err |-> "nil", n |-> nonceSize, nonce |-> SubSeq(bytes, off + 1, off + nonceSize)]


(***************************************************************************)
(* The WAL.                                                                *)
(***************************************************************************)
VARIABLES
    segFiles,            \* disk: segment id -> content of the file %09d<ext> in DirPath
    nonceBytes,          \* disk: content of the nonce file in NonceDirPath
    segs,                \* the segment objects the WAL has opened, by id
    activeSegment,       \* id of wal.activeSegment
    olderSegments,       \* ids (keys) of wal.olderSegments
    nonceFile,           \* wal.nonceFile: [curNum, closed]
    options,             \* wal.options: [Sync, BytesPerSync]
    bytesWrite,          \* wal.bytesWrite
    pendingWrites,       \* wal.pendingWrites
    pendingNonceWrites,  \* wal.pendingNonceWrites
    pendingSize,         \* wal.pendingSize
    reader,              \* the Reader in use, or NoReader
    renameIds,           \* wal.renameIds
    olderNil,            \* wal.olderSegments is the nil map (after Close or Delete)
    names,               \* disk: [seg: id -> extension of the segment file's name,
                         \*        nonce: extension of the nonce file's name, or NoName]
    fdNames,             \* fd.Name() of the open files, as extensions: [seg: id -> ext, nonce]
    durable,             \* disk: [seg: id -> length, nonce: length] last made durable by fsync
    walOpen,             \* Open has returned this WAL; neither Close nor Delete was called on it
    ret,                 \* what the last call returned
    calls,               \* the calls in progress when goroutines share the WAL:
                         \* goroutine -> [op, pc, what the call has read so far]
    handed,              \* number of records handed to Write or PendingWrites
    written,             \* records of the calls that returned without error:
                         \* [data, nonce, pos, by] (by: "Write" or "WriteAll")
    entered,             \* records the segments accepted, with the nonce supplied: [data, nonce]
    yielded,             \* records the reader has yielded: [data, nonce, pos]
    wasOlder,            \* ids of the segments that have been in olderSegments
    openMark,            \* at the last Open: [curNum, written] (cur_num and Len(written))
    corrupted,           \* index in written of the record a byte of which was changed, or 0
    vlog                 \* the value log over its partition WALs, or NoVlog

disk == <<segFiles, nonceBytes, names, durable>>
walMem == <<segs, activeSegment, olderSegments, nonceFile, options, bytesWrite, renameIds,
            olderNil, fdNames>>
pending == <<pendingWrites, pendingNonceWrites, pendingSize>>
ghost == <<handed, written, entered, yielded, wasOlder, openMark, corrupted, vlog, calls>>
\* the variables of the WAL that is used on its own
walVars == <<segFiles, nonceBytes, names, durable, segs, activeSegment, olderSegments,
             nonceFile, options, bytesWrite, renameIds, olderNil, fdNames, pendingWrites,
             pendingNonceWrites, pendingSize, reader, walOpen, handed, written, entered,
             yielded, wasOlder, openMark, corrupted, calls>>
vars == <<segFiles, nonceBytes, segs, activeSegment, olderSegments, nonceFile, options,
          bytesWrite, pendingWrites, pendingNonceWrites, pendingSize, reader, walOpen,
          ret, handed, written, entered, yielded, wasOlder, openMark, corrupted, vlog,
          renameIds, olderNil, names, fdNames, durable, calls>>

walVarsButCalls ==
    <<segFiles, nonceBytes, names, durable, segs, activeSegment, olderSegments,
      nonceFile, options, bytesWrite, renameIds, olderNil, fdNames, pendingWrites,
      pendingNonceWrites, pendingSize, reader, walOpen, handed, written, entered,
      yielded, wasOlder, openMark, corrupted>>

\* the call that goroutine g had in progress has returned
Returned(g) == calls' = [h \in DOMAIN calls \ {g} |-> calls[h]]

NoReader == [none |-> TRUE]
NoVlog == [none |-> TRUE]
\* no call in progress
NoCalls == [g \in {} |-> [pc |-> "none"]]
\* file extensions, as the strings they are made of: ".SEG", ".NEW" and
\* one without the leading dot
ExtSEG == <<".", "SEG">>
ExtNEW == <<".", "NEW">>
ExtNoDot == <<"NEW">>
\* strings.HasPrefix(ext, ".")
HasDotPrefix(ext) == Len(ext) > 0 /\ ext[1] = "."
\* no file of that name
NoName == <<>>

\* SegmentFileExt, Sync and BytesPerSync of DefaultOptions, and the three
\* sync policies
DefaultOptions == [SegmentFileExt |-> ExtSEG, Sync |-> FALSE, BytesPerSync |-> 0]
OptionSet ==
    {DefaultOptions,
     [DefaultOptions EXCEPT !.Sync = TRUE],
     [DefaultOptions EXCEPT !.BytesPerSync = 2 * blockSize]}

\* openSegmentFile: O_CREATE|O_APPEND, counters from the file's size
openSegmentFile(files, id) ==
    LET fs == IF id \in DOMAIN files THEN files ELSE files @@ (id :> <<>>)
    IN  [files |-> fs,
         seg |-> [id |-> id,
                  currentBlockNumber |-> Len(fs[id]) \div blockSize,
                  currentBlockSize |-> Len(fs[id]) % blockSize,
                  closed |-> FALSE,
                  startupBlock |-> [block |-> Zeros(blockSize), blockNumber |-> -1],
                  isStartupTraversal |-> FALSE]]

\* openNonceFile with cur_num started at zero whatever the file holds
openNonceFileFromZero(bytes) == [curNum |-> 0, closed |-> FALSE]

\* openNonceFile
openNonceFile(bytes) == [curNum |-> Len(bytes) \div nonceSize, closed |-> FALSE]

maxDataWriteSize(size) ==
    chunkHeaderSize + size + (size \div blockSize + 1) * chunkHeaderSize

\* The handlers below are functions of the WAL's state st, a record of
\* the fields a call may change and of what the call returns.
walState ==
    [files |-> segFiles, nbytes |-> nonceBytes, segs |-> segs, active |-> activeSegment,
     older |-> olderSegments, nf |-> nonceFile, bytesWrite |-> bytesWrite,
     olderNil |-> olderNil, durable |-> durable,
     err |-> "nil", pos |-> NilPos, positions |-> <<>>, entered |-> FALSE]

isFull(st, delta) == Size(st.segs[st.active]) + maxDataWriteSize(delta) > SegmentSize

\* segment.Sync and nonceFile.Sync: fd.Sync unless closed; failing says
\* whether fd.Sync returns an error
fileSync(closed, failing) == IF closed THEN "nil" ELSE IF failing THEN "EIO" ELSE "nil"

\* the fsyncs of the active segment and of the nonce file, in this order;
\* syncFault is the fsync that fails: "none", "seg" or "nonce".  Each fsync
\* that ran made the file durable up to its length.
fsyncBoth(st, syncFault) ==
    LET segDone(s) ==
            IF s.segs[s.active].closed THEN s
            ELSE [s EXCEPT !.durable.seg[s.active] = Len(s.files[s.active])]
        nonceDone(s) ==
            IF s.nf.closed THEN s ELSE [s EXCEPT !.durable.nonce = Len(s.nbytes)]
    IN  IF fileSync(st.segs[st.active].closed, syncFault = "seg") # "nil"
        THEN [st EXCEPT !.err = "EIO"]
        ELSE IF fileSync(st.nf.closed, syncFault = "nonce") # "nil"
        THEN [segDone(st) EXCEPT !.err = "EIO"]
        ELSE nonceDone(segDone(st))

\* rotateActiveSegment without the entry of the old segment in olderSegments
rotateActiveSegmentForgetOlder(st, syncFault) ==
    LET opened(s, o) ==
            [s EXCEPT !.files = o.files,
                      !.segs = (s.active + 1 :> o.seg) @@ s.segs,
                      !.durable.seg = (s.active + 1 :> 0) @@ s.durable.seg,
                      !.active = s.active + 1,
                      !.bytesWrite = 0]
        fsynced(s) ==
            IF s.err # "nil" THEN s ELSE opened(s, openSegmentFile(s.files, s.active + 1))
    IN  fsynced(fsyncBoth(st, syncFault))

rotateActiveSegment(st, syncFault) ==
    LET opened(s, o) ==
            \* wal.olderSegments[id] = ... on the nil map: the file is there,
            \* the call does not return
            IF s.olderNil
            THEN [s EXCEPT !.files = o.files,
                           !.durable.seg = (s.active + 1 :> 0) @@ s.durable.seg,
                           !.bytesWrite = 0,
                           !.err = "panic"]
            ELSE [s EXCEPT !.files = o.files,
                           !.segs = (s.active + 1 :> o.seg) @@ s.segs,
                           !.durable.seg = (s.active + 1 :> 0) @@ s.durable.seg,
                           !.older = s.older \cup {s.active},
                           !.active = s.active + 1,
                           !.bytesWrite = 0]
        fsynced(s) ==
            IF s.err # "nil" THEN s ELSE opened(s, openSegmentFile(s.files, s.active + 1))
    IN  fsynced(fsyncBoth(st, syncFault))

\* the state a call leaves
Commit(st) ==
    /\ segFiles' = st.files
    \* the files the call created carry the configured extension
    /\ names' = [names EXCEPT !.seg = [id \in DOMAIN st.files \ DOMAIN segFiles |->
                                          options.SegmentFileExt] @@ @]
    /\ fdNames' = [fdNames EXCEPT !.seg = [id \in DOMAIN st.segs \ DOMAIN segs |->
                                              options.SegmentFileExt] @@ @]
    /\ durable' = st.durable
    /\ UNCHANGED <<renameIds, olderNil>>
    /\ nonceBytes' = st.nbytes
    /\ segs' = st.segs
    /\ activeSegment' = st.active
    /\ olderSegments' = st.older
    /\ nonceFile' = st.nf
    /\ bytesWrite' = st.bytesWrite
    /\ wasOlder' = wasOlder \cup st.older

\* Open(opts) on empty directories, as it leaves the WAL
InitWal(opts) ==
    /\ calls = NoCalls
    /\ segFiles = (initialSegmentFileID :> <<>>)
    /\ nonceBytes = <<>>
    /\ segs = (initialSegmentFileID :> openSegmentFile(<<>>, initialSegmentFileID).seg)
    /\ activeSegment = initialSegmentFileID
    /\ olderSegments = {}
    /\ nonceFile = openNonceFile(<<>>)
    /\ options = opts
    /\ bytesWrite = 0
    /\ pendingWrites = <<>>
    /\ pendingNonceWrites = <<>>
    /\ pendingSize = 0
    /\ reader = NoReader
    /\ walOpen = TRUE
    /\ ret = [op |-> "Open", err |-> "nil"]
    /\ handed = 0
    /\ written = <<>>
    /\ entered = <<>>
    /\ yielded = <<>>
    /\ wasOlder = {}
    /\ openMark = [curNum |-> 0, written |-> 0]
    /\ corrupted = 0
    /\ renameIds = <<>>
    /\ olderNil = FALSE
    /\ names = [seg |-> (initialSegmentFileID :> opts.SegmentFileExt),
                nonce |-> opts.SegmentFileExt]
    /\ fdNames = [seg |-> (initialSegmentFileID :> opts.SegmentFileExt),
                  nonce |-> opts.SegmentFileExt]
    /\ durable = [seg |-> (initialSegmentFileID :> 0), nonce |-> 0]

\* Open(opts) on empty directories, with no value log
InitWith(opts) == InitWal(opts) /\ vlog = NoVlog

Init == InitWith(DefaultOptions)

(***************************************************************************)
(* WAL.Write.  segFault and nonceFault are the faults of the segment       *)
(* append and of the nonce append, rotFault and postFault the failing      *)
(* fsync ("none", "seg", "nonce") of the rotation and of the sync that     *)
(* follows the write under the sync policy.                                *)
(***************************************************************************)
\* the sync policy without Options.Sync
needSyncByBytes(st) ==
    options.BytesPerSync > 0 /\ st.bytesWrite >= options.BytesPerSync

\* needSync of WAL.Write: Options.Sync, or BytesPerSync reached
needSync(st) ==
    options.Sync \/ (options.BytesPerSync > 0 /\ st.bytesWrite >= options.BytesPerSync)

walWrite(st, data, nonce, segFault, nonceFault, rotFault, postFault) ==
    LET fsynced(s) ==
            IF s.err # "nil" THEN [s EXCEPT !.pos = NilPos] ELSE [s EXCEPT !.bytesWrite = 0]
        synced(s) == IF ~needSync(s) THEN s ELSE fsynced(fsyncBoth(s, postFault))
        nonced(s, n) ==
            IF n.err # "nil"
            THEN [s EXCEPT !.err = n.err, !.nbytes = n.bytes, !.nf = n.nf]
            ELSE synced([s EXCEPT !.nbytes = n.bytes, !.nf = n.nf, !.pos = n.pos,
                                  !.bytesWrite = @ + n.pos.ChunkSize])
        wrote(s, w) ==
            IF w.err # "nil"
            THEN [s EXCEPT !.err = w.err, !.files[s.active] = w.file, !.segs[s.active] = w.seg]
            ELSE nonced([s EXCEPT !.files[s.active] = w.file, !.segs[s.active] = w.seg,
                                  !.entered = TRUE],
                        nonceFileWrite(s.nf, s.nbytes, nonce, w.pos, nonceFault))
        rotated(s) ==
            IF s.err # "nil" THEN s
            ELSE wrote(s, segmentWrite(s.segs[s.active], s.files[s.active], data, segFault))
    IN  IF Len(data) + chunkHeaderSize > SegmentSize
        THEN [st EXCEPT !.err = "ErrValueTooLarge"]
        ELSE rotated(IF isFull(st, Len(data)) THEN rotateActiveSegment(st, rotFault) ELSE st)

WriteCall(data, nonce, segFault, nonceFault, rotFault, postFault) ==
    /\ reader = NoReader
    /\ handed < MaxRecords
    /\ \E st \in {walWrite(walState, data, nonce, segFault, nonceFault, rotFault, postFault)} :
        /\ st.active <= MaxSegments
        /\ Commit(st)
        /\ ret' = [op |-> "Write", data |-> data, nonce |-> nonce, err |-> st.err,
                   pos |-> st.pos]
        /\ written' = IF st.err = "nil"
                      THEN Append(written, [data |-> data, nonce |-> nonce, pos |-> st.pos,
                                            by |-> "Write"])
                      ELSE written
        /\ entered' = IF st.entered
                      THEN Append(entered, [data |-> data, nonce |-> nonce])
                      ELSE entered
    /\ handed' = handed + 1
    /\ Returned("writer")
    /\ UNCHANGED <<options, pending, reader, walOpen, yielded, openMark, corrupted, vlog>>

Write ==
    /\ walOpen
    /\ \E data \in DataSet(handed + 1), nonce \in NonceSet(handed + 1) :
        WriteCall(data, nonce, NoFault, NoFault, "none", "none")

(***************************************************************************)
(* Batched writes: PendingWrites, ClearPendingWrites, WriteAll.            *)
(***************************************************************************)
PendingWrites ==
    \E data \in DataSet(handed + 1), nonce \in NonceSet(handed + 1) :
        /\ walOpen
        /\ reader = NoReader
        /\ handed < MaxRecords
        /\ handed' = handed + 1
        /\ pendingSize' = pendingSize + maxDataWriteSize(Len(data))
        /\ pendingWrites' = Append(pendingWrites, data)
        /\ pendingNonceWrites' = Append(pendingNonceWrites, nonce)
        /\ ret' = [op |-> "PendingWrites", err |-> "nil"]
        /\ UNCHANGED <<disk, walMem, reader, walOpen, written, entered, yielded,
                       wasOlder, openMark, corrupted, vlog, calls>>

ClearPendingWrites ==
    /\ walOpen
    /\ reader = NoReader
    /\ pendingWrites # <<>>
    /\ pendingSize' = 0
    /\ pendingWrites' = <<>>
    /\ pendingNonceWrites' = <<>>
    /\ ret' = [op |-> "ClearPendingWrites", err |-> "nil"]
    /\ UNCHANGED <<disk, walMem, reader, walOpen, ghost>>

\* the records of a batch with the positions returned for them
batchRecords(data, nonce, positions) ==
    [i \in 1..Len(positions) |->
        [data |-> data[i], nonce |-> nonce[i], pos |-> positions[i], by |-> "WriteAll"]]

\* WAL.WriteAll returning the positions as the segment made them, without
\* the ordinals nonceFile.writeAll stamps on them
walWriteAllUnstamped(st, data, nonce, size, segFault, faultAt, nonceFault, rotFault) ==
    LET nonced(s, n, ps) ==
            [s EXCEPT !.nbytes = n.bytes, !.nf = n.nf, !.positions = ps]
        wrote(s, w) ==
            IF w.err # "nil"
            THEN [s EXCEPT !.err = w.err, !.files[s.active] = w.file, !.segs[s.active] = w.seg]
            ELSE nonced([s EXCEPT !.files[s.active] = w.file, !.segs[s.active] = w.seg,
                                  !.entered = TRUE],
                        nonceFileWriteAll(s.nf, s.nbytes, nonce, w.positions, 1,
                                          faultAt, nonceFault),
                        w.positions)
        rotated(s) ==
            IF s.err # "nil" THEN s
            ELSE wrote(s, segmentWriteAll(s.segs[s.active], s.files[s.active], data, segFault))
    IN  IF size > SegmentSize
        THEN [st EXCEPT !.err = "ErrPendingSizeTooLarge"]
        ELSE rotated(IF Size(st.segs[st.active]) + size > SegmentSize
                     THEN rotateActiveSegment(st, rotFault) ELSE st)

\* a ClearPendingWrites that WriteAll runs only when it returns nil
clearOnSuccess(st) ==
    IF st.err = "nil"
    THEN [pendingSize |-> 0, pendingWrites |-> <<>>, pendingNonceWrites |-> <<>>]
    ELSE [pendingSize |-> pendingSize, pendingWrites |-> pendingWrites,
          pendingNonceWrites |-> pendingNonceWrites]

\* the deferred ClearPendingWrites of WriteAll: it runs on every return
deferredClear(st) ==
    [pendingSize |-> 0, pendingWrites |-> <<>>, pendingNonceWrites |-> <<>>]

\* WAL.WriteAll on a non-empty buffer; segFault is the fault of the segment
\* append, faultAt the index of the nonce whose append fails (0: none).  The error of nonceFile.writeAll is dropped.
walWriteAll(st, data, nonce, size, segFault, faultAt, nonceFault, rotFault) ==
    LET nonced(s, n) ==
            IF n.err = "panic"
            THEN [s EXCEPT !.err = "panic", !.nbytes = n.bytes, !.nf = n.nf]
            ELSE [s EXCEPT !.nbytes = n.bytes, !.nf = n.nf, !.positions = n.positions]
        wrote(s, w) ==
            IF w.err # "nil"
            THEN [s EXCEPT !.err = w.err, !.files[s.active] = w.file, !.segs[s.active] = w.seg]
            ELSE nonced([s EXCEPT !.files[s.active] = w.file, !.segs[s.active] = w.seg,
                                  !.entered = TRUE],
                        nonceFileWriteAll(s.nf, s.nbytes, nonce, w.positions, 1,
                                          faultAt, nonceFault))
        rotated(s) ==
            IF s.err # "nil" THEN s
            ELSE wrote(s, segmentWriteAll(s.segs[s.active], s.files[s.active], data, segFault))
    IN  IF size > SegmentSize
        THEN [st EXCEPT !.err = "ErrPendingSizeTooLarge"]
        ELSE rotated(IF Size(st.segs[st.active]) + size > SegmentSize
                     THEN rotateActiveSegment(st, rotFault) ELSE st)

WriteAllCall(segFault, faultAt, nonceFault, rotFault) ==
    /\ reader = NoReader
    /\ IF pendingWrites = <<>>
       THEN /\ ret' = [op |-> "WriteAll", data |-> <<>>, nonce |-> <<>>, size |-> 0,
                       err |-> "nil", positions |-> <<>>]
            /\ UNCHANGED <<disk, segs, activeSegment, olderSegments, nonceFile, bytesWrite,
                           renameIds, olderNil, fdNames, pending, written, entered,
                           wasOlder>>
       ELSE \E st \in {walWriteAll(walState, pendingWrites, pendingNonceWrites, pendingSize,
                                   segFault, faultAt, nonceFault, rotFault)} :
            /\ st.active <= MaxSegments
            /\ Commit(st)
            /\ \E c \in {deferredClear(st)} :
                /\ pendingSize' = c.pendingSize
                /\ pendingWrites' = c.pendingWrites
                /\ pendingNonceWrites' = c.pendingNonceWrites
            /\ ret' = [op |-> "WriteAll", data |-> pendingWrites,
                       nonce |-> pendingNonceWrites, size |-> pendingSize, err |-> st.err,
                       positions |-> st.positions]
            /\ written' = IF st.err = "nil"
                          THEN written \o batchRecords(pendingWrites, pendingNonceWrites,
                                                       st.positions)
                          ELSE written
            /\ entered' = IF st.entered
                          THEN entered \o [i \in 1..Len(pendingWrites) |->
                                              [data |-> pendingWrites[i],
                                               nonce |-> pendingNonceWrites[i]]]
                          ELSE entered
    /\ Returned("writer")
    /\ UNCHANGED <<options, reader, walOpen, handed, yielded, openMark, corrupted, vlog>>

WriteAll == walOpen /\ WriteAllCall(NoFault, 0, NoFault, "none")


(***************************************************************************)
(* Rotation on demand, Close, Open.                                        *)
(***************************************************************************)
\* OpenNewActiveSegment giving the new segment the id of the active one
walOpenNewActiveSegmentSameId(st, syncFault) ==
    LET opened(s, o) ==
            [s EXCEPT !.files = o.files,
                      !.segs = (s.active :> o.seg) @@ s.segs,
                      !.older = s.older \cup {s.active}]
        fsynced(s) ==
            IF s.err # "nil" THEN s ELSE opened(s, openSegmentFile(s.files, s.active))
    IN  fsynced(fsyncBoth(st, syncFault))

\* WAL.OpenNewActiveSegment (bytesWrite is left as it is)
walOpenNewActiveSegment(st, syncFault) ==
    LET opened(s, o) ==
            \* wal.olderSegments[id] = ... on the nil map: the file is there,
            \* the call does not return
            IF s.olderNil
            THEN [s EXCEPT !.files = o.files,
                           !.durable.seg = (s.active + 1 :> 0) @@ s.durable.seg,
                           !.err = "panic"]
            ELSE [s EXCEPT !.files = o.files,
                           !.segs = (s.active + 1 :> o.seg) @@ s.segs,
                           !.durable.seg = (s.active + 1 :> 0) @@ s.durable.seg,
                           !.older = s.older \cup {s.active},
                           !.active = s.active + 1]
        fsynced(s) ==
            IF s.err # "nil" THEN s ELSE opened(s, openSegmentFile(s.files, s.active + 1))
    IN  fsynced(fsyncBoth(st, syncFault))

OpenNewActiveSegmentCall(syncFault) ==
    /\ reader = NoReader
    /\ activeSegment < MaxSegments
    /\ \E st \in {walOpenNewActiveSegment(walState, syncFault)} :
        /\ Commit(st)
        /\ ret' = [op |-> "OpenNewActiveSegment", err |-> st.err]
    /\ UNCHANGED <<options, pending, reader, walOpen, handed, written, entered, yielded,
                   openMark, corrupted, vlog, calls>>

OpenNewActiveSegment == walOpen /\ OpenNewActiveSegmentCall("none")

\* the orders in which a range over a map with the keys S may visit them
orders(S) ==
    {q \in [1..Cardinality(S) -> S] : \A i, j \in 1..Cardinality(S) : i # j => q[i] # q[j]}

\* WAL.Close: every segment and the nonce file are closed, the map is
\* dropped; the ids of the older segments and then the id of the active
\* one are appended to renameIds, on every call
CloseCall ==
    /\ segs' = [id \in DOMAIN segs |->
                   IF id \in olderSegments \cup {activeSegment}
                   THEN [segs[id] EXCEPT !.closed = TRUE] ELSE segs[id]]
    /\ \E order \in orders(olderSegments) :
           renameIds' = renameIds \o order \o <<activeSegment>>
    /\ olderSegments' = {}
    /\ olderNil' = TRUE
    /\ nonceFile' = [nonceFile EXCEPT !.closed = TRUE]
    /\ walOpen' = FALSE
    /\ ret' = [op |-> "Close", err |-> "nil"]
    /\ Returned("writer")
    /\ UNCHANGED <<disk, activeSegment, options, bytesWrite, fdNames, pending, reader, handed,
                   written, entered, yielded, wasOlder, openMark, corrupted, vlog>>

Close == walOpen /\ reader = NoReader /\ CloseCall

\* the ids of a set in ascending order (sort.Ints, sort.Slice by segment id)
RECURSIVE sortIds(_)
sortIds(S) ==
    IF S = {} THEN <<>>
    ELSE LET m == CHOOSE x \in S : \A y \in S : x <= y
         IN  <<m>> \o sortIds(S \ {m})

\* the ids of the segment files whose names carry the extension ext
segmentIDs(ext) == {id \in DOMAIN names.seg : names.seg[id] = ext}

\* Open(opts) on the directories the closed WAL used: an extension without
\* the leading dot is refused before anything is touched; else the segment
\* files found are opened in id order and the one with the highest id
\* becomes active.  The files of these directories carry one extension.
OpenCall(opts) ==
    IF ~HasDotPrefix(opts.SegmentFileExt)
    THEN /\ ret' = [op |-> "Open", ext |-> opts.SegmentFileExt, err |-> "ErrExt"]
         /\ UNCHANGED <<disk, walMem, pending, reader, walOpen, ghost>>
    ELSE
    /\ segmentIDs(opts.SegmentFileExt) = DOMAIN segFiles
    /\ names.nonce \in {opts.SegmentFileExt, NoName}
    /\ \E files \in {IF segmentIDs(opts.SegmentFileExt) = {}
                     THEN openSegmentFile(segFiles, initialSegmentFileID).files
                     ELSE segFiles} :
       \E order \in {sortIds(DOMAIN files)} :
        /\ segFiles' = files
        /\ segs' = [id \in DOMAIN files |-> openSegmentFile(files, id).seg]
        /\ activeSegment' = order[Len(order)]
        /\ olderSegments' = {order[i] : i \in 1..(Len(order) - 1)}
        /\ wasOlder' = wasOlder \cup {order[i] : i \in 1..(Len(order) - 1)}
        /\ names' = [seg |-> [id \in DOMAIN files |-> opts.SegmentFileExt],
                     nonce |-> opts.SegmentFileExt]
        /\ fdNames' = [seg |-> [id \in DOMAIN files |-> opts.SegmentFileExt],
                       nonce |-> opts.SegmentFileExt]
        /\ durable' = [durable EXCEPT
                          !.seg = [id \in DOMAIN files |->
                                      IF id \in DOMAIN durable.seg THEN durable.seg[id] ELSE 0]]
    /\ nonceFile' = openNonceFile(nonceBytes)
    /\ options' = opts
    /\ bytesWrite' = 0
    /\ renameIds' = <<>>
    /\ olderNil' = FALSE
    /\ pendingWrites' = <<>>
    /\ pendingNonceWrites' = <<>>
    /\ pendingSize' = 0
    /\ reader' = NoReader
    /\ walOpen' = TRUE
    /\ openMark' = [curNum |-> Len(nonceBytes) \div nonceSize, written |-> Len(written)]
    /\ ret' = [op |-> "Open", ext |-> opts.SegmentFileExt, err |-> "nil"]
    /\ UNCHANGED <<nonceBytes, handed, written, entered, yielded, corrupted, vlog, calls>>

Open == ~walOpen /\ OpenCall(options)

(***************************************************************************)
(* RenameFileExt, Delete and Sync.  A file is on disk under the name that  *)
(* names gives it; os.Rename and os.Remove fail with ENOENT on a name that *)
(* no file carries.                                                        *)
(***************************************************************************)
\* the loop of RenameFileExt over wal.renameIds: os.Rename of the segment
\* file of each id from the configured extension to ext, until one fails
RECURSIVE renameLoop(_, _, _, _, _)
renameLoop(nm, ids, i, old, ext) ==
    IF i > Len(ids) THEN [err |-> "nil", seg |-> nm]
    ELSE IF ~(ids[i] \in DOMAIN nm /\ nm[ids[i]] = old) THEN [err |-> "ENOENT", seg |-> nm]
    ELSE renameLoop([nm EXCEPT ![ids[i]] = ext], ids, i + 1, old, ext)

\* RenameFileExt without the check of the extension
walRenameFileExtUnchecked(ext) ==
    LET out(e, sg, nc, o) == [err |-> e, names |-> [seg |-> sg, nonce |-> nc], ext |-> o]
        renamed(r) ==
            IF r.err # "nil" THEN out(r.err, r.seg, names.nonce, options.SegmentFileExt)
            ELSE IF names.nonce # options.SegmentFileExt
            THEN out("ENOENT", r.seg, names.nonce, options.SegmentFileExt)
            ELSE out("nil", r.seg, ext, ext)
    IN  renamed(renameLoop(names.seg, renameIds, 1, options.SegmentFileExt, ext))

\* WAL.RenameFileExt, as the names and the configured extension it leaves
walRenameFileExt(ext) ==
    LET out(e, sg, nc, o) == [err |-> e, names |-> [seg |-> sg, nonce |-> nc], ext |-> o]
        renamed(r) ==
            IF r.err # "nil" THEN out(r.err, r.seg, names.nonce, options.SegmentFileExt)
            ELSE IF names.nonce # options.SegmentFileExt
            THEN out("ENOENT", r.seg, names.nonce, options.SegmentFileExt)
            ELSE out("nil", r.seg, ext, ext)
    IN  IF ~HasDotPrefix(ext)
        THEN out("ErrExt", names.seg, names.nonce, options.SegmentFileExt)
        ELSE renamed(renameLoop(names.seg, renameIds, 1, options.SegmentFileExt, ext))

RenameFileExtCall(ext) ==
    /\ \E r \in {walRenameFileExt(ext)} :
        /\ names' = r.names
        /\ options' = [options EXCEPT !.SegmentFileExt = r.ext]
        /\ ret' = [op |-> "RenameFileExt", err |-> r.err, ext |-> ext]
    /\ UNCHANGED <<segFiles, nonceBytes, durable, segs, activeSegment, olderSegments,
                   nonceFile, bytesWrite, renameIds, olderNil, fdNames, pending, reader,
                   walOpen, ghost>>

\* segment.Remove over the segments ids[i..], then nonceFile.Remove when
\* withNonce: each file is closed and os.Remove takes the name its fd was
\* opened with; the first failure ends the call
RECURSIVE removeLoop(_, _, _, _, _)
removeLoop(nm, closed, ids, i, withNonce) ==
    LET out(e) == [err |-> e, names |-> nm, closed |-> closed, nonceClosed |-> FALSE]
        removeNonce ==
            IF nm.nonce # fdNames.nonce THEN [out("ENOENT") EXCEPT !.nonceClosed = TRUE]
            ELSE [err |-> "nil", names |-> [nm EXCEPT !.nonce = NoName], closed |-> closed,
                  nonceClosed |-> TRUE]
    IN  IF i > Len(ids) THEN (IF withNonce THEN removeNonce ELSE out("nil"))
        ELSE IF ~(ids[i] \in DOMAIN nm.seg /\ nm.seg[ids[i]] = fdNames.seg[ids[i]])
        THEN [out("ENOENT") EXCEPT !.closed = closed \cup {ids[i]}]
        ELSE removeLoop([nm EXCEPT !.seg = [id \in DOMAIN nm.seg \ {ids[i]} |-> nm.seg[id]]],
                        closed \cup {ids[i]}, ids, i + 1, withNonce)

\* WAL.Delete: the older segments in the order of the map, the active
\* segment, the nonce file.  The map is dropped once the older segments
\* are removed.
DeleteCall ==
    /\ \E order \in orders(olderSegments) :
       \E o \in {removeLoop(names, {}, order, 1, FALSE)} :
       \E r \in {IF o.err # "nil" THEN o
                  ELSE removeLoop(o.names, o.closed, <<activeSegment>>, 1, TRUE)} :
        /\ names' = r.names
        /\ segs' = [id \in DOMAIN segs |->
                       IF id \in r.closed THEN [segs[id] EXCEPT !.closed = TRUE] ELSE segs[id]]
        /\ nonceFile' = IF r.nonceClosed THEN [nonceFile EXCEPT !.closed = TRUE] ELSE nonceFile
        /\ olderSegments' = IF o.err # "nil" THEN olderSegments ELSE {}
        /\ olderNil' = IF o.err # "nil" THEN olderNil ELSE TRUE
        /\ ret' = [op |-> "Delete", err |-> r.err]
    /\ walOpen' = FALSE
    /\ UNCHANGED <<segFiles, nonceBytes, durable, activeSegment, options, bytesWrite,
                   renameIds, fdNames, pending, reader, ghost>>

\* WAL.Sync: the fsync of the active segment file
SyncCall(failing) ==
    /\ \E e \in {fileSync(segs[activeSegment].closed, failing)} :
        /\ durable' = IF e = "nil" /\ ~segs[activeSegment].closed
                      THEN [durable EXCEPT !.seg[activeSegment] = Len(segFiles[activeSegment])]
                      ELSE durable
        /\ ret' = [op |-> "Sync", err |-> e]
    /\ Returned("writer")
    /\ UNCHANGED <<segFiles, nonceBytes, names, walMem, pending, reader, walOpen, handed,
                   written, entered, yielded, wasOlder, openMark, corrupted, vlog>>

(***************************************************************************)
(* Reads: WAL.Read and the Reader.                                         *)
(***************************************************************************)
\* WAL.Read on the WAL in the state st, as the values it returns
walRead(st, pos, stale) ==
    LET fail(e) == [err |-> e, data |-> <<>>, nonce |-> <<>>]
        got(n, d) ==
            IF d.err = "panic" THEN fail("panic")
            ELSE [err |-> d.err, data |-> d.value, nonce |-> n.nonce]
        nonced(n) ==
            IF n.err # "nil" THEN fail(n.err)
            ELSE IF n.n # nonceSize THEN fail("ErrNonceIncomplete")
            ELSE got(n, segmentRead(st.segs[pos.SegmentId], st.files[pos.SegmentId],
                                    pos.BlockNumber, pos.ChunkOffset, stale))
    IN  IF ~(pos.SegmentId = st.active \/ pos.SegmentId \in st.older)
        THEN fail("ErrSegmentNotFound")
        ELSE nonced(nonceReadAt(st.nf, st.nbytes, pos.ValueNum))

\* WAL.Read on the WAL of the variables
WALRead(pos, stale) == walRead(walState, pos, stale)

ReadCall ==
    \E i \in 1..Len(written), stale \in StaleBytes :
        /\ ret' = [op |-> "Read", pos |-> written[i].pos] @@ WALRead(written[i].pos, stale)
        /\ UNCHANGED <<disk, walMem, pending, reader, walOpen, ghost>>

Read == walOpen /\ reader = NoReader /\ ReadCall

\* WAL.NewReaderWithMax on the WAL in the state st; a segment reader is
\* [id, blockNumber, chunkOffset].  The readers of the older segments and
\* the reader of the active segment are appended one by one and sorted by
\* id, so an active segment that is also in the older map is there twice.
\* a reader over every segment, whatever segId is
walNewReaderOverAll(st, segId) ==
    [segmentReaders |-> [i \in 1..Cardinality(st.older \cup {st.active}) |->
                            [id |-> sortIds(st.older \cup {st.active})[i],
                             blockNumber |-> 0, chunkOffset |-> 0]],
     currentReader |-> 0,
     valueNum |-> 0]

walNewReaderWithMax(st, segId) ==
    LET readers(order) ==
            [segmentReaders |-> [i \in 1..Len(order) |->
                                    [id |-> order[i], blockNumber |-> 0, chunkOffset |-> 0]],
             currentReader |-> 0,
             valueNum |-> 0]
        olders == sortIds({id \in st.older \ {st.active} : segId = 0 \/ id <= segId})
        twice == IF st.active \in st.older /\ (segId = 0 \/ st.active <= segId)
                 THEN <<st.active>> ELSE <<>>
        actives == IF segId = 0 \/ st.active <= segId THEN <<st.active>> ELSE <<>>
        before == SelectSeq(olders, LAMBDA id : id < st.active)
        after == SelectSeq(olders, LAMBDA id : id > st.active)
    IN  readers(before \o twice \o actives \o after)

\* WAL.NewReaderWithMax on the WAL of the variables
NewReaderWithMax(segId) == walNewReaderWithMax(walState, segId)

NewReader ==
    /\ walOpen
    /\ reader = NoReader
    /\ reader' = NewReaderWithMax(0)
    /\ yielded' = <<>>
    /\ ret' = [op |-> "NewReader", err |-> "nil"]
    /\ UNCHANGED <<disk, walMem, pending, walOpen, handed, written, entered, wasOlder,
                   openMark, corrupted, vlog, calls>>

\* Reader.Next on the WAL in the state st, as the values it returns and
\* the reader it leaves; segErr is what the segment reader underneath
\* returned
RECURSIVE walReaderNext(_, _, _)
walReaderNext(st, r, stale) ==
    LET k == r.currentReader + 1
        out(e, se, rd, d, nc, p) ==
            [err |-> e, segErr |-> se, r |-> rd, data |-> d, nonce |-> nc, pos |-> p]
        nonced(s, r1, n) ==
            IF n.n # nonceSize \/ n.err # "nil"
            THEN out("EOF", s.err, r1, <<>>, <<>>, NilPos)
            ELSE out("nil", s.err, [r1 EXCEPT !.valueNum = @ + 1], s.value, n.nonce,
                     [s.pos EXCEPT !.ValueNum = r.valueNum])
        stepped(s) ==
            IF s.err = "EOF" THEN walReaderNext(st, [r EXCEPT !.currentReader = @ + 1], stale)
            \* position.ValueNum = r.valueNum on the nil position of a failed read
            ELSE IF s.pos = NilPos
            THEN out("panic", s.err, [r EXCEPT !.segmentReaders[k] = s.sr], <<>>, <<>>, NilPos)
            ELSE nonced(s, [r EXCEPT !.segmentReaders[k] = s.sr],
                        nonceReadAt(st.nf, st.nbytes, r.valueNum))
    IN  IF r.currentReader >= Len(r.segmentReaders)
        THEN out("EOF", "EOF", r, <<>>, <<>>, NilPos)
        ELSE stepped(segmentReaderNext(r.segmentReaders[k], st.segs[r.segmentReaders[k].id],
                                       st.files[r.segmentReaders[k].id], stale))

\* Reader.Next on the WAL of the variables
readerNext(r, stale) == walReaderNext(walState, r, stale)

Next ==
    /\ reader # NoReader
    /\ \E stale \in StaleBytes :
       \E x \in {readerNext(reader, stale)} :
        /\ reader' = x.r
        /\ ret' = [op |-> "Next", err |-> x.err, segErr |-> x.segErr, data |-> x.data,
                   nonce |-> x.nonce, pos |-> x.pos]
        /\ yielded' = IF x.err = "nil"
                      THEN Append(yielded, [data |-> x.data, nonce |-> x.nonce, pos |-> x.pos])
                      ELSE yielded
    /\ UNCHANGED <<disk, walMem, pending, walOpen, handed, written, entered,
                   wasOlder, openMark, corrupted, vlog, calls>>

\* the loop of NewReaderWithStart: segments below the one of startPos are
\* skipped, then Next is called until the reader stands at a block number
\* and a chunk offset that are both at least those of startPos, or until
\* Next returns io.EOF.  CurrentSegmentId on a reader past its last
\* segment is an index out of range.
RECURSIVE readerWithStart(_, _, _)
readerWithStart(r, startPos, stale) ==
    LET k == r.currentReader + 1
        stepped(x) ==
            IF x.err = "EOF" THEN [err |-> "nil", r |-> x.r]
            ELSE IF x.err # "nil" THEN [err |-> x.err, r |-> x.r]
            ELSE readerWithStart(x.r, startPos, stale)
    IN  IF k > Len(r.segmentReaders) THEN [err |-> "panic", r |-> r]
        ELSE IF r.segmentReaders[k].id < startPos.SegmentId
        THEN readerWithStart([r EXCEPT !.currentReader = @ + 1], startPos, stale)
        ELSE IF /\ r.segmentReaders[k].blockNumber >= startPos.BlockNumber
                /\ r.segmentReaders[k].chunkOffset >= startPos.ChunkOffset
        THEN [err |-> "nil", r |-> r]
        ELSE stepped(readerNext(r, stale))

\* WAL.NewReaderWithStart: a nil position is refused before anything else
NewReaderWithStartCall(startPos) ==
    IF startPos = NilPos
    THEN /\ ret' = [op |-> "NewReaderWithStart", start |-> startPos, err |-> "ErrNilStart"]
         /\ UNCHANGED <<disk, walMem, pending, reader, walOpen, ghost>>
    ELSE /\ \E stale \in StaleBytes :
            \E x \in {readerWithStart(NewReaderWithMax(0), startPos, stale)} :
             /\ reader' = IF x.err = "nil" THEN x.r ELSE NoReader
             /\ ret' = [op |-> "NewReaderWithStart", start |-> startPos, err |-> x.err]
         /\ yielded' = <<>>
         /\ UNCHANGED <<disk, walMem, pending, walOpen, handed, written, entered, wasOlder,
                        openMark, corrupted, vlog, calls>>

(***************************************************************************)
(* The WAL used by one caller, with no I/O failure and an intact disk.     *)
(***************************************************************************)
NextStep ==
    \/ Write
    \/ PendingWrites
    \/ ClearPendingWrites
    \/ WriteAll
    \/ OpenNewActiveSegment
    \/ Close
    \/ Open
    \/ Read
    \/ NewReader
    \/ Next

Spec == Init /\ [][NextStep]_vars


(***************************************************************************)
(* The WAL on a disk whose writes to the nonce file and whose fsyncs may   *)
(* fail: the calls take the faults as further inputs.                      *)
(***************************************************************************)
\* faults of one append to the nonce file: none, nothing written, or the
\* nonce written short of its last byte
NonceFaults == {NoFault, Fault(0), Fault(nonceSize - 1)}
\* the fsync that fails in a call
SyncFaults == {"none", "seg", "nonce"}

\* with and without a sync after every write
InitIO == \E opts \in {o \in OptionSet : o.BytesPerSync = 0} : InitWith(opts)

WriteIO ==
    /\ walOpen
    /\ \E data \in DataSet(handed + 1), nonce \in NonceSet(handed + 1) :
       \E nonceFault \in NonceFaults, rotFault \in SyncFaults, postFault \in SyncFaults :
        WriteCall(data, nonce, NoFault, nonceFault, rotFault, postFault)

WriteAllIO ==
    /\ walOpen
    /\ \E faultAt \in 0..Len(pendingWrites) :
       \E nonceFault \in (IF faultAt = 0 THEN {NoFault} ELSE NonceFaults \ {NoFault}) :
       \E rotFault \in SyncFaults :
        WriteAllCall(NoFault, faultAt, nonceFault, rotFault)

OpenNewActiveSegmentIO ==
    walOpen /\ \E syncFault \in SyncFaults : OpenNewActiveSegmentCall(syncFault)

NextIO ==
    \/ WriteIO
    \/ PendingWrites
    \/ WriteAllIO
    \/ OpenNewActiveSegmentIO

SpecIO == InitIO /\ [][NextIO]_vars

(***************************************************************************)
(* The WAL used by one caller when the appends to the segment file fail    *)
(* as well: a write to the segment file appends all of the chunk buffer,   *)
(* nothing of it, or the first chunk header alone.                         *)
(***************************************************************************)
SegFaults == {NoFault, Fault(0), Fault(chunkHeaderSize)}

WriteSeg ==
    /\ walOpen
    /\ \E data \in DataSet(handed + 1), nonce \in NonceSet(handed + 1) :
       \E segFault \in SegFaults, rotFault \in SyncFaults :
        WriteCall(data, nonce, segFault, NoFault, rotFault, "none")

WriteAllSeg ==
    /\ walOpen
    /\ \E segFault \in SegFaults, faultAt \in 0..Len(pendingWrites) :
       \E nonceFault \in (IF faultAt = 0 THEN {NoFault} ELSE {Fault(0)}) :
       \E rotFault \in SyncFaults :
        WriteAllCall(segFault, faultAt, nonceFault, rotFault)

NextSeg ==
    \/ WriteSeg
    \/ PendingWrites
    \/ WriteAllSeg

SpecSeg == Init /\ [][NextSeg]_vars

(***************************************************************************)
(* The WAL on a disk that changes one byte of a record's chunks behind its *)
(* back; the WAL is read after that, by Read and by a Reader.              *)
(***************************************************************************)
\* the values a changed byte may take
CorruptBytes == {0, 1, 255}

Corrupt ==
    /\ walOpen
    /\ reader = NoReader
    /\ corrupted = 0
    /\ \E i \in 1..Len(written) :
       \E off \in 1..written[i].pos.ChunkSize, v \in CorruptBytes :
       \E at \in {written[i].pos.BlockNumber * blockSize + written[i].pos.ChunkOffset + off} :
        /\ segFiles[written[i].pos.SegmentId][at] # v
        /\ segFiles' = [segFiles EXCEPT ![written[i].pos.SegmentId][at] = v]
        /\ corrupted' = i
    /\ ret' = [op |-> "Corrupt", err |-> "nil"]
    /\ UNCHANGED <<nonceBytes, names, durable, walMem, pending, reader, walOpen, handed,
                   written, entered, yielded, wasOlder, openMark, vlog, calls>>

\* the writes stop once a byte has been changed
NextCorrupt ==
    \/ corrupted = 0 /\ Write
    \/ corrupted = 0 /\ OpenNewActiveSegment
    \/ Corrupt
    \/ Read
    \/ NewReader
    \/ Next

SpecCorrupt == Init /\ [][NextCorrupt]_vars

(***************************************************************************)
(* The end of a WAL's life: Close (any number of times), RenameFileExt     *)
(* and Delete, in any order, after writes and rotations.                   *)
(***************************************************************************)
MaxRenameIds == 4

CloseAny ==
    /\ reader = NoReader
    /\ Len(renameIds) + Cardinality(olderSegments) < MaxRenameIds
    /\ CloseCall

RenameFileExt == \E ext \in {ExtNEW, ExtSEG} : RenameFileExtCall(ext)

Delete == DeleteCall

NextLife ==
    \/ Write
    \/ OpenNewActiveSegment
    \/ CloseAny
    \/ RenameFileExt
    \/ Delete

SpecLife == Init /\ [][NextLife]_vars

(***************************************************************************)
(* The calls made on a WAL after its Close: the caller keeps the WAL, the  *)
(* positions it was given and the Reader it created.                       *)
(***************************************************************************)
CloseOnce == walOpen /\ CloseCall

WriteClosed ==
    /\ ~walOpen
    /\ \E data \in DataSet(handed + 1), nonce \in NonceSet(handed + 1) :
        WriteCall(data, nonce, NoFault, NoFault, "none", "none")

WriteAllClosed == ~walOpen /\ pendingWrites # <<>> /\ WriteAllCall(NoFault, 0, NoFault, "none")

ReadClosed == ~walOpen /\ ReadCall

OpenNewActiveSegmentClosed == ~walOpen /\ OpenNewActiveSegmentCall("none")

NextClosed == ~walOpen /\ Next

NextUseClosed ==
    \/ Write
    \/ PendingWrites
    \/ OpenNewActiveSegment
    \/ NewReader
    \/ CloseOnce
    \/ WriteClosed
    \/ WriteAllClosed
    \/ ReadClosed
    \/ OpenNewActiveSegmentClosed
    \/ NextClosed

SpecClosed == Init /\ [][NextUseClosed]_vars

(***************************************************************************)
(* The calls that validation refuses, among writes and rotations: a record *)
(* that no segment can hold, a batch larger than a segment, an extension   *)
(* without the leading dot, a nil start position.                          *)
(***************************************************************************)
WriteTooLarge ==
    /\ walOpen
    /\ \E nonce \in NonceSet(handed + 1) :
        WriteCall(MkData(handed + 1, SegmentSize - chunkHeaderSize + 1), nonce,
                  NoFault, NoFault, "none", "none")

OpenBadExt == OpenCall([options EXCEPT !.SegmentFileExt = ExtNoDot])

RenameBadExt == RenameFileExtCall(ExtNoDot)

NewReaderWithStart ==
    /\ walOpen
    /\ reader = NoReader
    /\ \E startPos \in {NilPos} \cup {written[i].pos : i \in 1..Len(written)} :
        NewReaderWithStartCall(startPos)

NextValid ==
    \/ Write
    \/ PendingWrites
    \/ WriteAll
    \/ OpenNewActiveSegment
    \/ WriteTooLarge
    \/ OpenBadExt
    \/ RenameBadExt
    \/ NewReaderWithStart

SpecValid == Init /\ [][NextValid]_vars

(***************************************************************************)
(* The sync policies: the WAL opened with each of the three option sets,   *)
(* explicit Syncs, and the fsync after a write failing.  What an fsync     *)
(* made durable is in the variable durable.                                *)
(***************************************************************************)
InitSync == \E opts \in OptionSet : InitWith(opts)

WriteSync ==
    /\ walOpen
    /\ \E data \in DataSet(handed + 1), nonce \in NonceSet(handed + 1) :
       \E postFault \in SyncFaults :
        WriteCall(data, nonce, NoFault, NoFault, "none", postFault)

Sync == walOpen /\ reader = NoReader /\ SyncCall(FALSE)

NextSync ==
    \/ WriteSync
    \/ PendingWrites
    \/ WriteAll
    \/ OpenNewActiveSegment
    \/ Sync
    \/ Close

SpecSync == InitSync /\ [][NextSync]_vars

(***************************************************************************)
(* The WAL used as the shipped example uses it: every record is written    *)
(* with a nil nonce, read back, and iterated.                              *)
(***************************************************************************)
WriteNoNonce ==
    /\ walOpen
    /\ \E data \in DataSet(handed + 1) :
        WriteCall(data, <<>>, NoFault, NoFault, "none", "none")

NextNoNonce ==
    \/ WriteNoNonce
    \/ OpenNewActiveSegment
    \/ Read
    \/ NewReader
    \/ Next

SpecNoNonce == Init /\ [][NextNoNonce]_vars

(***************************************************************************)
(* The WAL handed nonces of any length: Write, PendingWrites and WriteAll  *)
(* pass the caller's byte string to the nonce file unchecked.              *)
(***************************************************************************)
ShortNonceLen == 5

AnyNonceSet(tag) == {<<>>, SubSeq(MkNonce(tag), 1, ShortNonceLen), MkNonce(tag)}

WriteAnyNonce ==
    /\ walOpen
    /\ \E nonce \in AnyNonceSet(handed + 1) :
        WriteCall(MkData(handed + 1, blockSize - 5), nonce, NoFault, NoFault, "none", "none")

PendingWritesAnyNonce ==
    \E data \in {MkData(handed + 1, blockSize - 5)}, nonce \in AnyNonceSet(handed + 1) :
        /\ walOpen
        /\ reader = NoReader
        /\ handed < MaxRecords
        /\ handed' = handed + 1
        /\ pendingSize' = pendingSize + maxDataWriteSize(Len(data))
        /\ pendingWrites' = Append(pendingWrites, data)
        /\ pendingNonceWrites' = Append(pendingNonceWrites, nonce)
        /\ ret' = [op |-> "PendingWrites", err |-> "nil"]
        /\ UNCHANGED <<disk, walMem, reader, walOpen, written, entered, yielded,
                       wasOlder, openMark, corrupted, vlog, calls>>

NextNonces ==
    \/ WriteAnyNonce
    \/ PendingWritesAnyNonce
    \/ WriteAll
    \/ OpenNewActiveSegment
    \/ Close
    \/ Open

SpecNonces == Init /\ [][NextNonces]_vars

(***************************************************************************)
(* Startup traversal: with isStartupTraversal set, readInternal reads into *)
(* the block buffer of the segment, seg.startupBlock, and reads a block    *)
(* from the file only when it is not the cached one or is not full.        *)
(***************************************************************************)
\* the turns of the loop of readInternal on a segment in startup
\* traversal; reused lists the block numbers taken from the cached block
RECURSIVE readLoopTraversal(_, _, _, _, _, _)
readLoopTraversal(seg, file, blockNumber, chunkOffset, result, reused) ==
    LET offset == blockNumber * blockSize
        size == IF blockSize + offset > Size(seg) THEN Size(seg) - offset ELSE blockSize
        start == chunkOffset + chunkHeaderSize
        onDisk == IF Len(file) > offset THEN Len(file) - offset ELSE 0
        fail(e, sg, us) ==
            [err |-> e, value |-> <<>>, next |-> NilPos, seg |-> sg, reused |-> us]
        parse(sg, blk, us, checksumEnd) ==
            IF checksumEnd > blockSize THEN fail("panic", sg, us)
            ELSE IF ~checksumMatches(blk, chunkOffset, checksumEnd)
            THEN fail("ErrInvalidCRC", sg, us)
            ELSE IF blk[chunkOffset + 7] = ChunkTypeFull \/ blk[chunkOffset + 7] = ChunkTypeLast
            THEN [err |-> "nil", value |-> result \o Slice(blk, start, checksumEnd),
                  next |-> nextChunk(seg.id, blockNumber, checksumEnd),
                  seg |-> sg, reused |-> us]
            ELSE readLoopTraversal(sg, file, blockNumber + 1, 0,
                                   result \o Slice(blk, start, checksumEnd), us)
        filled(sg, blk, us) ==
            IF chunkOffset < 0 \/ start > blockSize THEN fail("panic", sg, us)
            ELSE parse(sg, blk, us, start + Uint16(Slice(blk, chunkOffset + 4, chunkOffset + 6)))
        loaded(blk) ==
            filled([seg EXCEPT !.startupBlock = [block |-> blk, blockNumber |-> blockNumber]],
                   blk, reused)
    IN  IF chunkOffset >= size THEN fail("EOF", seg, reused)
        ELSE IF seg.startupBlock.blockNumber = blockNumber /\ size = blockSize
        THEN filled(seg, seg.startupBlock.block, Append(reused, blockNumber))
        \* fd.ReadAt(block[0:size], offset) reads fewer than size bytes
        ELSE IF offset + size > Len(file)
        THEN fail("EOF",
                  [seg EXCEPT !.startupBlock.block =
                       SubSeq(file, offset + 1, offset + onDisk)
                           \o SubSeq(@, onDisk + 1, blockSize)],
                  reused)
        ELSE loaded(SubSeq(file, offset + 1, offset + size)
                        \o SubSeq(seg.startupBlock.block, size + 1, blockSize))

\* readInternal, with the segment as the read leaves it
segmentReadInternal(seg, file, blockNumber, chunkOffset, stale) ==
    IF seg.closed
    THEN [err |-> "ErrClosed", value |-> <<>>, next |-> NilPos, seg |-> seg, reused |-> <<>>]
    ELSE IF seg.isStartupTraversal
    THEN readLoopTraversal(seg, file, blockNumber, chunkOffset, <<>>, <<>>)
    ELSE readInternal(seg, file, blockNumber, chunkOffset, stale)
             @@ [seg |-> seg, reused |-> <<>>]

SetIsStartupTraversal ==
    /\ walOpen
    /\ \E v \in BOOLEAN :
        /\ segs' = [id \in DOMAIN segs |->
                        IF id \in olderSegments \cup {activeSegment}
                        THEN [segs[id] EXCEPT !.isStartupTraversal = v]
                        ELSE segs[id]]
        /\ ret' = [op |-> "SetIsStartupTraversal", v |-> v, err |-> "nil"]
    /\ UNCHANGED <<disk, activeSegment, olderSegments, nonceFile, options, bytesWrite,
                   renameIds, olderNil, fdNames, pending, reader, walOpen, ghost>>

\* where the records of segment id start and where the segment reader
\* stands after each of them
recordStarts(id) ==
    {<<written[i].pos.BlockNumber, written[i].pos.ChunkOffset>> :
        i \in {j \in 1..Len(written) : written[j].pos.SegmentId = id}}

readerStops(id) ==
    recordStarts(id)
        \cup {<<written[i].pos.BlockNumber
                  + (written[i].pos.ChunkOffset + written[i].pos.ChunkSize) \div blockSize,
                (written[i].pos.ChunkOffset + written[i].pos.ChunkSize) % blockSize>> :
                 i \in {j \in 1..Len(written) : written[j].pos.SegmentId = id}}

\* segment.Read, and the read of segmentReader.Next, at a place where a
\* record starts or the records end
SegmentReadAt ==
    /\ walOpen
    /\ \E id \in olderSegments \cup {activeSegment}, stale \in StaleBytes :
       \E at \in readerStops(id) :
       \E r \in {segmentReadInternal(segs[id], segFiles[id], at[1], at[2], stale)} :
        /\ segs' = [segs EXCEPT ![id] = r.seg]
        /\ ret' = [op |-> "segment.Read", id |-> id, blockNumber |-> at[1],
                   chunkOffset |-> at[2], traversal |-> segs[id].isStartupTraversal,
                   err |-> r.err, value |-> r.value, next |-> r.next, reused |-> r.reused]
    /\ UNCHANGED <<disk, activeSegment, olderSegments, nonceFile, options, bytesWrite,
                   renameIds, olderNil, fdNames, pending, reader, walOpen, ghost>>

NextTraversal ==
    \/ Write
    \/ SetIsStartupTraversal
    \/ SegmentReadAt

SpecTraversal == Init /\ [][NextTraversal]_vars

(***************************************************************************)
(* WriteAll in the steps that a PendingWrites of another goroutine can     *)
(* fall between.  PendingWrites holds wal.pendingWritesLock only; WriteAll *)
(* holds wal.mu and reads pendingSize, pendingWrites and                   *)
(* pendingNonceWrites one after the other without pendingWritesLock; its   *)
(* deferred ClearPendingWrites takes pendingWritesLock.  calls["WriteAll"] *)
(* holds what the call has read.                                           *)
(***************************************************************************)
flushing == "WriteAll" \in DOMAIN calls

\* len(wal.pendingWrites) == 0, or wal.mu.Lock()
WriteAllEnter ==
    /\ walOpen
    /\ reader = NoReader
    /\ ~flushing
    /\ IF pendingWrites = <<>>
       THEN /\ ret' = [op |-> "WriteAll", data |-> <<>>, nonce |-> <<>>, size |-> 0,
                       err |-> "nil", positions |-> <<>>]
            /\ UNCHANGED calls
       ELSE /\ calls' = ("WriteAll" :> [pc |-> "size"])
            /\ ret' = [op |-> "WriteAll.Lock", err |-> "nil"]
    /\ UNCHANGED <<disk, walMem, pending, reader, walOpen, handed, written, entered, yielded,
                   wasOlder, openMark, corrupted, vlog>>

\* the two comparisons of wal.pendingSize
WriteAllSize ==
    /\ flushing
    /\ calls["WriteAll"].pc = "size"
    /\ calls' = ("WriteAll" :> [pc |-> "segment", size |-> pendingSize])
    /\ ret' = [op |-> "WriteAll.pendingSize", err |-> "nil"]
    /\ UNCHANGED <<disk, walMem, pending, reader, walOpen, handed, written, entered, yielded,
                   wasOlder, openMark, corrupted, vlog>>

\* wal.activeSegment.writeAll(wal.pendingWrites)
WriteAllSegment ==
    /\ flushing
    /\ calls["WriteAll"].pc = "segment"
    /\ calls' = ("WriteAll" :> [pc |-> "nonce", size |-> calls["WriteAll"].size,
                                data |-> pendingWrites])
    /\ ret' = [op |-> "WriteAll.pendingWrites", err |-> "nil"]
    /\ UNCHANGED <<disk, walMem, pending, reader, walOpen, handed, written, entered, yielded,
                   wasOlder, openMark, corrupted, vlog>>

\* wal.nonceFile.writeAll(wal.pendingNonceWrites, positions): what the
\* call did to the files with what it read
WriteAllNonce ==
    /\ flushing
    /\ calls["WriteAll"].pc = "nonce"
    /\ \E f \in {calls["WriteAll"]} :
       \E st \in {walWriteAll(walState, f.data, pendingNonceWrites, f.size,
                              NoFault, 0, NoFault, "none")} :
        /\ st.active <= MaxSegments
        /\ Commit(st)
        /\ calls' = ("WriteAll" :> [pc |-> "return", size |-> f.size, data |-> f.data,
                                    nonce |-> pendingNonceWrites, err |-> st.err,
                                    positions |-> st.positions])
        /\ entered' = IF st.entered
                      THEN entered \o [i \in 1..Len(f.data) |->
                                          [data |-> f.data[i], nonce |-> pendingNonceWrites[i]]]
                      ELSE entered
    /\ ret' = [op |-> "WriteAll.pendingNonceWrites", err |-> "nil"]
    /\ UNCHANGED <<options, pending, reader, walOpen, handed, written, yielded, openMark,
                   corrupted, vlog>>

\* the deferred ClearPendingWrites and wal.mu.Unlock(), and the return
WriteAllReturn ==
    /\ flushing
    /\ calls["WriteAll"].pc = "return"
    /\ \E f \in {calls["WriteAll"]} :
        /\ \E c \in {deferredClear(f)} :
            /\ pendingSize' = c.pendingSize
            /\ pendingWrites' = c.pendingWrites
            /\ pendingNonceWrites' = c.pendingNonceWrites
        /\ ret' = [op |-> "WriteAll", data |-> f.data, nonce |-> f.nonce, size |-> f.size,
                   err |-> f.err, positions |-> f.positions]
        /\ written' = IF f.err = "nil"
                      THEN written \o batchRecords(f.data, f.nonce, f.positions)
                      ELSE written
    /\ calls' = NoCalls
    /\ UNCHANGED <<disk, walMem, reader, walOpen, handed, entered, yielded, wasOlder,
                   openMark, corrupted, vlog>>

\* PendingWrites of one-byte records, whose batches fit a segment
PendingWritesSmall ==
    \E data \in {MkData(handed + 1, 1)}, nonce \in NonceSet(handed + 1) :
        /\ walOpen
        /\ reader = NoReader
        /\ handed < MaxRecords
        /\ handed' = handed + 1
        /\ pendingSize' = pendingSize + maxDataWriteSize(Len(data))
        /\ pendingWrites' = Append(pendingWrites, data)
        /\ pendingNonceWrites' = Append(pendingNonceWrites, nonce)
        /\ ret' = [op |-> "PendingWrites", err |-> "nil"]
        /\ UNCHANGED <<disk, walMem, reader, walOpen, written, entered, yielded,
                       wasOlder, openMark, corrupted, vlog, calls>>

NextFlush ==
    \/ PendingWritesSmall
    \/ WriteAllEnter
    \/ WriteAllSize
    \/ WriteAllSegment
    \/ WriteAllNonce
    \/ WriteAllReturn

SpecFlush == Init /\ [][NextFlush]_vars

(***************************************************************************)
(* wal.mu between a goroutine that creates a reader with                   *)
(* NewReaderWithStart and a goroutine that calls Write, WriteAll, Sync or  *)
(* Close.  wal.mu is a sync.RWMutex: a Lock that has been called keeps new *)
(* RLock calls waiting, and is granted when no reader holds the lock.      *)
(* calls[g] = [op, pc] is where goroutine g stands in its call.            *)
(***************************************************************************)
\* the number of RLocks of wal.mu that are held
readersHeld ==
    IF "reader" \notin DOMAIN calls THEN 0
    ELSE IF calls["reader"].pc = "NewReader" THEN 1
    ELSE IF calls["reader"].pc = "NewReaderWithMax" THEN 2
    ELSE 0

\* a Lock of wal.mu has been called and has not been released
writerPending == "writer" \in DOMAIN calls

LockedOps == {"Write", "WriteAll", "Sync", "Close"}

\* NewReaderWithStart is called with a position: it calls wal.mu.RLock()
ReaderCalls ==
    /\ walOpen
    /\ "reader" \notin DOMAIN calls
    /\ calls' = ("reader" :> [op |-> "NewReaderWithStart", pc |-> "RLock"]) @@ calls
    /\ UNCHANGED <<walVarsButCalls, ret, vlog>>

\* the RLock of NewReaderWithStart is granted
ReaderRLock ==
    /\ "reader" \in DOMAIN calls
    /\ calls["reader"].pc = "RLock"
    /\ ~writerPending
    /\ calls' = [calls EXCEPT !["reader"].pc = "NewReader"]
    /\ UNCHANGED <<walVarsButCalls, ret, vlog>>

\* NewReader calls NewReaderWithMax(0), whose RLock is granted
ReaderInnerRLock ==
    /\ "reader" \in DOMAIN calls
    /\ calls["reader"].pc = "NewReader"
    /\ ~writerPending
    /\ calls' = [calls EXCEPT !["reader"].pc = "NewReaderWithMax"]
    /\ UNCHANGED <<walVarsButCalls, ret, vlog>>

\* NewReaderWithMax builds the reader and releases its RLock;
\* NewReaderWithStart moves the reader to the start position, releases its
\* RLock and returns.  The caller keeps no reader.
ReaderReturns ==
    /\ "reader" \in DOMAIN calls
    /\ calls["reader"].pc = "NewReaderWithMax"
    /\ \E startPos \in {ChunkPosition(initialSegmentFileID, 0, 0, 0, 0)}
                         \cup {written[i].pos : i \in 1..Len(written)},
          stale \in StaleBytes :
       \E x \in {readerWithStart(NewReaderWithMax(0), startPos, stale)} :
           ret' = [op |-> "NewReaderWithStart", start |-> startPos, err |-> x.err]
    /\ Returned("reader")
    /\ UNCHANGED <<walVarsButCalls, vlog>>

\* Write, WriteAll, Sync or Close is called: it calls wal.mu.Lock()
WriterCalls ==
    /\ walOpen
    /\ "writer" \notin DOMAIN calls
    /\ \E op \in LockedOps :
        /\ op = "Write" => handed < MaxRecords
        /\ op = "WriteAll" => pendingWrites # <<>>
        /\ calls' = ("writer" :> [op |-> op, pc |-> "Lock"]) @@ calls
    /\ UNCHANGED <<walVarsButCalls, ret, vlog>>

\* the Lock is granted
WriterLock ==
    /\ "writer" \in DOMAIN calls
    /\ calls["writer"].pc = "Lock"
    /\ readersHeld = 0
    /\ calls' = [calls EXCEPT !["writer"].pc = "locked"]
    /\ UNCHANGED <<walVarsButCalls, ret, vlog>>

\* the call does its work, releases the Lock and returns
WriterReturns ==
    /\ "writer" \in DOMAIN calls
    /\ calls["writer"].pc = "locked"
    /\ \/ /\ calls["writer"].op = "Write"
          /\ \E data \in {MkData(handed + 1, 1)}, nonce \in NonceSet(handed + 1) :
              WriteCall(data, nonce, NoFault, NoFault, "none", "none")
       \/ /\ calls["writer"].op = "WriteAll"
          /\ WriteAllCall(NoFault, 0, NoFault, "none")
       \/ /\ calls["writer"].op = "Sync"
          /\ SyncCall(FALSE)
       \/ /\ calls["writer"].op = "Close"
          /\ CloseCall

NextLock ==
    \/ PendingWritesSmall
    \/ ReaderCalls
    \/ ReaderRLock
    \/ ReaderInnerRLock
    \/ ReaderReturns
    \/ WriterCalls
    \/ WriterLock
    \/ WriterReturns

SpecLock == Init /\ [][NextLock]_vars

\* the steps of a call in progress, by goroutine
ReaderRuns == ReaderRLock \/ ReaderInnerRLock \/ ReaderReturns

\* the Lock of wal.mu is held
writerLocked == "writer" \in DOMAIN calls /\ calls["writer"].pc = "locked"

\* a goroutine that can run does run, a goroutine waiting for wal.mu gets
\* it if it can be granted again and again, and the call that holds the
\* Lock does its work and returns (WriterReturns is its only step)
SpecLockFair ==
    /\ SpecLock
    /\ SF_vars(ReaderRuns)
    /\ SF_vars(WriterLock)
    /\ []<>(~writerLocked)

(***************************************************************************)
(* Properties of the WAL with no I/O failure and an intact disk.           *)
(***************************************************************************)
\* what Read returns for a record that is read back intact
Intact(rec) == [err |-> "nil", data |-> rec.data, nonce |-> rec.nonce]

(***************************************************************************)
(* The value log: partitionNum WALs in one directory, the WAL of partition *)
(* i with the extension .VLOG.i (vlog.go, structs.go).                     *)
(***************************************************************************)
gcmTagSize == 2
MaxPartitionNum == 11
MaxBatchLen == 3
MaxBatches == 2

\* binary.LittleEndian.Uint32
Uint32(b) == b[1] + 256 * b[2] + 65536 * b[3] + 16777216 * b[4]

\* aesgcm.Seal(nil, nonce, buf, nil) under the fixed key: the bytes of buf
\* under a key stream that the nonce determines, then a tag over the nonce
\* and buf.  AES-GCM is replaced by a reversible byte-wise cipher and a
\* polynomial tag, which keep what the value log relies on: Open with the
\* nonce of Seal gives buf back, Open with another nonce fails.
gcmTag(nonce, buf) ==
    [i \in 1..gcmTagSize |-> (ChecksumIEEE(nonce \o buf) \div (i * i)) % 256]
aesgcmSeal(nonce, buf) ==
    [i \in 1..Len(buf) |-> (buf[i] + nonce[((i - 1) % nonceSize) + 1]) % 256]
        \o gcmTag(nonce, buf)

\* aesgcm.Open(nil, nonce, buf_enc, nil): the plain bytes, or an error
aesgcmOpen(nonce, enc) ==
    LET n == Len(enc) - gcmTagSize
        plain(k) == [i \in 1..k |-> (enc[i] + 256 - nonce[((i - 1) % nonceSize) + 1]) % 256]
    IN  IF n < 0 \/ Len(nonce) # nonceSize THEN [err |-> "ErrOpen", buf |-> <<>>]
        ELSE IF SubSeq(enc, n + 1, Len(enc)) # gcmTag(nonce, plain(n))
        THEN [err |-> "ErrOpen", buf |-> <<>>]
        ELSE [err |-> "nil", buf |-> plain(n)]

\* encodeValueLogRecord with the key length in big-endian order
encodeValueLogRecordBE(record, nonce) ==
    [buf_enc |-> aesgcmSeal(nonce, <<0, 0, 0, Len(record.key)>> \o record.key \o record.value),
     nonce |-> nonce]

\* encodeValueLogRecord with the nonce that rand.Reader gave
encodeValueLogRecord(record, nonce) ==
    [buf_enc |-> aesgcmSeal(nonce, PutUint32(Len(record.key)) \o record.key \o record.value),
     nonce |-> nonce]

\* decodeValueLogRecord: a failed Open is a panic
decodeValueLogRecord(buf_enc, nonce) ==
    LET parsed(buf, keyLen) ==
            IF Len(buf) < 4 + keyLen THEN [err |-> "panic", key |-> <<>>, value |-> <<>>]
            ELSE [err |-> "nil", key |-> SubSeq(buf, 5, 4 + keyLen),
                  value |-> SubSeq(buf, 5 + keyLen, Len(buf))]
        opened(o) ==
            IF o.err # "nil" \/ Len(o.buf) < 4
            THEN [err |-> "panic", key |-> <<>>, value |-> <<>>]
            ELSE parsed(o.buf, Uint32(o.buf))
    IN  opened(aesgcmOpen(nonce, buf_enc))

\* the hash function of the options: the sum of the bytes of the key
RECURSIVE hashKeyFunction(_)
hashKeyFunction(key) == IF key = <<>> THEN 0 ELSE Head(key) + hashKeyFunction(Tail(key))

\* valueLog.getKeyPartition
getKeyPartition(key, partitionNum) == hashKeyFunction(key) % partitionNum

\* the decimal digits of i, as fmt.Sprintf("%d", i) prints them
RECURSIVE digits(_)
digits(i) == IF i < 10 THEN <<i>> ELSE digits(i \div 10) \o <<i % 10>>

\* fmt.Sprintf(valueLogFileExt, i)
valueLogFileExt(i) == <<".", "VLOG", ".">> \o digits(i)

\* fmt.Sscanf(name, "%d"+ext, &id) on a name made of an id and the extension
\* nameExt: the scan succeeds once the format is used up, whatever follows
\* in the name
sscanfMatches(nameExt, ext) ==
    Len(ext) <= Len(nameExt) /\ SubSeq(nameExt, 1, Len(ext)) = ext

\* the ids that Open of partition part scans from the directory all the
\* partitions share, sorted as sort.Ints leaves them; files[q] are the
\* segment files that carry the extension of partition q
RECURSIVE repeatId(_, _)
repeatId(id, n) == IF n = 0 THEN <<>> ELSE <<id>> \o repeatId(id, n - 1)
RECURSIVE concatIds(_, _)
concatIds(order, count) ==
    IF order = <<>> THEN <<>>
    ELSE repeatId(Head(order), count[Head(order)]) \o concatIds(Tail(order), count)
scannedIds(files, part) ==
    LET from == {q \in DOMAIN files :
                    sscanfMatches(valueLogFileExt(q), valueLogFileExt(part))}
        ids == UNION {DOMAIN files[q] : q \in from}
    IN  concatIds(sortIds(ids),
                  [id \in ids |-> Cardinality({q \in from : id \in DOMAIN files[q]})])

\* dwal.Open for partition part: own is the segment files of its
\* extension, nbytes its nonce file, ids the ids scanned.  Each id is opened
\* under the partition's own extension (created when there is no such
\* file); the last one is the active segment, the others are stored in
\* olderSegments under their ids.
partitionOpen(own, nbytes, ids) ==
    LET order == IF ids = <<>> THEN <<initialSegmentFileID>> ELSE ids
        opened == {order[i] : i \in 1..Len(order)}
        fs == [id \in DOMAIN own \cup opened |-> IF id \in DOMAIN own THEN own[id] ELSE <<>>]
    IN  [files |-> fs, nbytes |-> nbytes,
         segs |-> [id \in opened |-> openSegmentFile(fs, id).seg],
         active |-> order[Len(order)],
         older |-> {order[i] : i \in 1..(Len(order) - 1)},
         nf |-> openNonceFile(nbytes), bytesWrite |-> 0, olderNil |-> FALSE,
         durable |-> [seg |-> [id \in DOMAIN fs |-> Len(fs[id])], nonce |-> Len(nbytes)],
         err |-> "nil", pos |-> NilPos, positions |-> <<>>, entered |-> FALSE]

\* WAL.Close of a partition
partitionClose(st) ==
    [st EXCEPT !.segs = [id \in DOMAIN @ |-> [@[id] EXCEPT !.closed = TRUE]],
               !.older = {}, !.olderNil = TRUE, !.nf.closed = TRUE]

NoBatch == [none |-> TRUE]
NoPending == [pendingWrites |-> <<>>, pendingNonceWrites |-> <<>>, pendingSize |-> 0]

\* openValueLog: the partitions are opened in the order 0 .. partitionNum-1,
\* each on the directory as the earlier ones left it.  files and nbytes are
\* the segment files and the nonce file of each extension.
RECURSIVE openPartitions(_, _, _, _)
openPartitions(files, nbytes, i, n) ==
    IF i = n THEN <<>>
    ELSE LET w == partitionOpen(files[i], nbytes[i], scannedIds(files, i))
         IN  <<w>> \o openPartitions([files EXCEPT ![i] = w.files], nbytes, i + 1, n)
openValueLog(files, nbytes, n) ==
    LET ws == openPartitions(files, nbytes, 0, n)
    IN  [i \in 0..(n - 1) |-> ws[i + 1]]

\* the value log: its options, its partition WALs with their pending
\* buffers, the writeBatch in progress, and as history the records that
\* writeBatch returned positions for and the number of records handed in
valueLogOn(files, nbytes, n, old) ==
    [partitionNum |-> n, open |-> TRUE,
     walFiles |-> openValueLog(files, nbytes, n),
     pending |-> [i \in 0..(n - 1) |-> NoPending],
     batch |-> NoBatch,
     stored |-> old.stored, count |-> old.count, batches |-> old.batches,
     opens |-> old.opens + 1]

PartitionNums == {2, MaxPartitionNum}

InitVlog ==
    /\ InitWal(DefaultOptions)
    /\ \E n \in PartitionNums :
        vlog = valueLogOn([i \in 0..(n - 1) |-> <<>>], [i \in 0..(n - 1) |-> <<>>], n,
                          [stored |-> <<>>, count |-> 0, batches |-> 0, opens |-> 0])

VlogKeys == {<<1>>, <<10>>}
MaxOpens == 2

\* the batches a caller hands to writeBatch: up to MaxBatchLen records with
\* keys of VlogKeys, the value of the k-th record ever handed in is MkData(k, 1)
BatchSet(count) ==
    UNION {[1..len -> VlogKeys] : len \in 1..MaxBatchLen}

\* writeBatch up to the start of its goroutines: the records grouped by
\* partition in input order, posChan empty, one task per non-empty partition
writeBatchGo(v, records) ==
    LET parts == 0..(v.partitionNum - 1)
        partitionRecords ==
            [p \in parts |->
                SelectSeq(records, LAMBDA r : getKeyPartition(r.key, v.partitionNum) = p)]
    IN  [records |-> records,
         partitionRecords |-> partitionRecords,
         task |-> [p \in parts |->
                      [pc |-> IF partitionRecords[p] = <<>> THEN "none" ELSE "loop",
                       i |-> 0, err |-> "nil"]],
         cancelled |-> FALSE, firstErr |-> "nil", posChan |-> <<>>, faulted |-> FALSE]

\* writeBatch(records) is called and starts its goroutines.  The state of a
\* partition holds one segment object per id, so batches are written while
\* no partition has its active segment in olderSegments as well.
WriteBatchGo ==
    /\ vlog # NoVlog
    /\ vlog.open
    /\ vlog.batch = NoBatch
    /\ vlog.batches < MaxBatches
    /\ \A p \in DOMAIN vlog.walFiles : vlog.walFiles[p].active \notin vlog.walFiles[p].older
    /\ \E keys \in BatchSet(vlog.count) :
        /\ vlog' = [vlog EXCEPT
                       !.batch = writeBatchGo(vlog,
                                     [i \in 1..Len(keys) |->
                                         [key |-> keys[i], value |-> MkData(vlog.count + i, 1)]]),
                       !.count = @ + Len(keys)]
        /\ ret' = [op |-> "go", err |-> "nil"]
    /\ UNCHANGED walVars

\* a task returns and the group neither keeps its error nor cancels
taskReturnsUnreported(b, part, err) ==
    [b EXCEPT !.task[part].pc = "done", !.task[part].err = err]

\* errgroup: the first task that returns an error cancels the context
taskReturns(b, part, err) ==
    [b EXCEPT !.task[part].pc = "done", !.task[part].err = err,
              !.cancelled = @ \/ err # "nil",
              !.firstErr = IF @ = "nil" THEN err ELSE @]

\* one turn of the loop of the task of partition part: with the context
\* cancelled the task returns ctx.Err() and its deferred function clears
\* the pending writes; else the record is encoded with a fresh nonce and
\* handed to PendingWrites
TaskLoop(part) ==
    /\ vlog # NoVlog
    /\ vlog.batch # NoBatch
    /\ part \in DOMAIN vlog.batch.task
    /\ vlog.batch.task[part].pc = "loop"
    /\ vlog.batch.task[part].i < Len(vlog.batch.partitionRecords[part])
    /\ IF vlog.batch.cancelled
       THEN vlog' = [vlog EXCEPT !.batch = taskReturns(@, part, "canceled"),
                                 !.pending[part] = NoPending]
       ELSE \E i \in {vlog.batch.task[part].i + 1} :
            \E record \in {vlog.batch.partitionRecords[part][i]} :
            \E nonce \in NonceSet(record.value[1]) :
            \E enc \in {encodeValueLogRecord(record, nonce)} :
                vlog' = [vlog EXCEPT
                    !.batch.task[part].i = i,
                    !.pending[part] =
                        [pendingWrites |-> @.pendingWrites \o <<enc.buf_enc>>,
                         pendingNonceWrites |-> @.pendingNonceWrites \o <<enc.nonce>>,
                         pendingSize |-> @.pendingSize + maxDataWriteSize(Len(enc.buf_enc))]]
    /\ ret' = [op |-> "task", err |-> "nil"]
    /\ UNCHANGED walVars

\* what a call of the WAL leaves in the state of the partition
settled(st) == [st EXCEPT !.err = "nil", !.pos = NilPos, !.positions = <<>>,
                          !.entered = FALSE]

\* the end of the task of partition part: WriteAll, whose own deferred
\* function clears the pending writes, then either the error is returned or
\* the positions are paired with the keys and sent to posChan
TaskWriteAll(part, segFault) ==
    /\ vlog # NoVlog
    /\ vlog.batch # NoBatch
    /\ part \in DOMAIN vlog.batch.task
    /\ vlog.batch.task[part].pc = "loop"
    /\ vlog.batch.task[part].i = Len(vlog.batch.partitionRecords[part])
    /\ \E pend \in {vlog.pending[part]} :
       \E st \in {walWriteAll(vlog.walFiles[part], pend.pendingWrites,
                              pend.pendingNonceWrites, pend.pendingSize,
                              segFault, 0, NoFault, "none")} :
        /\ st.active <= MaxSegments
        \* posChan <- keyPositions waits while the channel is full
        /\ st.err # "nil" \/ Len(vlog.batch.posChan) < vlog.partitionNum
        /\ vlog' = [vlog EXCEPT
              !.walFiles[part] = settled(st),
              !.pending[part] = deferredClear(st),
              !.batch = [taskReturns(@, part, st.err) EXCEPT
                  !.faulted = @ \/ segFault.fails,
                  !.posChan =
                      IF st.err # "nil" THEN @
                      ELSE @ \o <<[i \in 1..Len(st.positions) |->
                                      [key |-> vlog.batch.partitionRecords[part][i].key,
                                       partition |-> part,
                                       position |-> st.positions[i]]]>>]]
        /\ ret' = [op |-> "task", err |-> st.err]
    /\ UNCHANGED walVars

RECURSIVE flatten(_)
flatten(ss) == IF ss = <<>> THEN <<>> ELSE Head(ss) \o flatten(Tail(ss))

\* g.Wait() and the rest of writeBatch: the first error of the tasks and
\* no positions, or the positions received from posChan in the order of
\* their sending
WriteBatchReturn ==
    /\ vlog # NoVlog
    /\ vlog.batch # NoBatch
    /\ \A p \in DOMAIN vlog.batch.task : vlog.batch.task[p].pc \in {"none", "done"}
    /\ \E b \in {vlog.batch} :
       \E keyPositions \in {IF b.firstErr # "nil" THEN <<>> ELSE flatten(b.posChan)} :
        /\ ret' = [op |-> "writeBatch", records |-> b.records, err |-> b.firstErr,
                   positions |-> keyPositions, faulted |-> b.faulted,
                   task |-> b.task]
        /\ vlog' = [vlog EXCEPT !.batch = NoBatch, !.batches = @ + 1,
                                !.stored = @ \o keyPositions]
    /\ UNCHANGED walVars

\* valueLog.read
valueLogRead(v, pos, stale) ==
    LET decoded(d) == [err |-> d.err, key |-> d.key, value |-> d.value]
        got(r) == IF r.err # "nil" THEN [err |-> r.err, key |-> <<>>, value |-> <<>>]
                  ELSE decoded(decodeValueLogRecord(r.data, r.nonce))
    IN  got(walRead(v.walFiles[pos.partition], pos.position, stale))

VlogRead ==
    /\ vlog # NoVlog
    /\ vlog.open
    /\ vlog.batch = NoBatch
    /\ \E i \in 1..Len(vlog.stored), stale \in StaleBytes :
        \E r \in {valueLogRead(vlog, vlog.stored[i], stale)} :
            ret' = [op |-> "read", pos |-> vlog.stored[i], err |-> r.err,
                    key |-> r.key, value |-> r.value]
    /\ UNCHANGED <<walVars, vlog>>

\* valueLog.close
VlogClose ==
    /\ vlog # NoVlog
    /\ vlog.open
    /\ vlog.batch = NoBatch
    /\ vlog' = [vlog EXCEPT !.open = FALSE,
                            !.walFiles = [p \in DOMAIN @ |-> partitionClose(@[p])]]
    /\ ret' = [op |-> "close", err |-> "nil"]
    /\ UNCHANGED walVars

\* openValueLog with the same options on the directories a closed value
\* log left
VlogOpen ==
    /\ vlog # NoVlog
    /\ ~vlog.open
    /\ vlog.opens < MaxOpens
    /\ vlog' = valueLogOn([p \in DOMAIN vlog.walFiles |-> vlog.walFiles[p].files],
                          [p \in DOMAIN vlog.walFiles |-> vlog.walFiles[p].nbytes],
                          vlog.partitionNum, vlog)
    /\ ret' = [op |-> "openValueLog", err |-> "nil"]
    /\ UNCHANGED walVars

\* NewReader on the WAL of a partition and Next until it returns an error:
\* the records yielded and that error
RECURSIVE readAll(_, _, _, _)
readAll(st, r, stale, got) ==
    LET n == walReaderNext(st, r, stale)
    IN  IF n.err # "nil" THEN [err |-> n.err, records |-> got]
        ELSE readAll(st, n.r, stale,
                     got \o <<[data |-> n.data, nonce |-> n.nonce, pos |-> n.pos]>>)

PartitionScan ==
    /\ vlog # NoVlog
    /\ vlog.open
    /\ vlog.batch = NoBatch
    /\ \E key \in VlogKeys, stale \in StaleBytes :
        \E part \in {getKeyPartition(key, vlog.partitionNum)} :
        \E st \in {vlog.walFiles[part]} :
        \E all \in {readAll(st, walNewReaderWithMax(st, 0), stale, <<>>)} :
            ret' = [op |-> "scan", partition |-> part, err |-> all.err,
                    records |-> all.records]
    /\ UNCHANGED <<walVars, vlog>>

VlogFaults == {NoFault, Fault(0)}

NextVlog ==
    \/ WriteBatchGo
    \/ \E part \in 0..(MaxPartitionNum - 1) : TaskLoop(part)
    \/ \E part \in 0..(MaxPartitionNum - 1), segFault \in VlogFaults :
           TaskWriteAll(part, segFault)
    \/ WriteBatchReturn
    \/ VlogRead
    \/ VlogClose
    \/ VlogOpen
    \/ PartitionScan

SpecVlog == InitVlog /\ [][NextVlog]_vars

(***************************************************************************)
(* Readers that start at a position or stop at a segment.                  *)
(***************************************************************************)
\* the start positions handed to NewReaderWithStart: every segment id up to
\* one past the active segment, every block of a segment, the chunk offsets
\* of the records written and offset zero
StartSet ==
    {ChunkPosition(sid, bn, off, 0, 0) :
        sid \in initialSegmentFileID..(activeSegment + 1),
        bn \in 0..(SegmentSize \div blockSize),
        off \in {0} \cup {written[i].pos.ChunkOffset : i \in 1..Len(written)}}

NewReaderWithStartAt ==
    /\ walOpen
    /\ reader = NoReader
    /\ \E startPos \in StartSet : NewReaderWithStartCall(startPos)

\* NewReaderWithMax with a segment id up to one past the active segment
NewReaderWithMaxAt ==
    /\ walOpen
    /\ reader = NoReader
    /\ \E segId \in 0..(activeSegment + 1) :
        /\ reader' = NewReaderWithMax(segId)
        /\ ret' = [op |-> "NewReaderWithMax", segId |-> segId, err |-> "nil"]
    /\ yielded' = <<>>
    /\ UNCHANGED <<disk, walMem, pending, walOpen, handed, written, entered, wasOlder,
                   openMark, corrupted, vlog, calls>>

NextMax ==
    \/ Write
    \/ PendingWrites
    \/ WriteAll
    \/ OpenNewActiveSegment
    \/ NewReaderWithMaxAt
    \/ Next

SpecMax == Init /\ [][NextMax]_vars

NextStart ==
    \/ Write
    \/ OpenNewActiveSegment
    \/ NewReaderWithStartAt
    \/ Next

SpecStart == Init /\ [][NextStart]_vars

(***************************************************************************)
(* ChunkPosition.Encode, EncodeFixedSize and DecodeChunkPosition.  The     *)
(* fields are unsigned numbers of up to 64 bits, written here as their     *)
(* base-128 digits, least significant first and without leading zero       *)
(* digits (zero is <<0>>), the form in which the varint code handles them. *)
(***************************************************************************)
MaxVarintLen32 == 5
MaxVarintLen64 == 10
maxLen == MaxVarintLen32 * 3 + MaxVarintLen64

\* n digits 127: the number 2^(7n) - 1
RECURSIVE ones(_)
ones(n) == IF n = 0 THEN <<>> ELSE <<127>> \o ones(n - 1)

\* 2^32 - 1 and 2^63 - 1
MaxUint32 == ones(4) \o <<15>>
MaxInt64 == ones(9)
\* the values of a uint32 field and of a non-negative int64 field
Uint32Values == {<<0>>, <<0, 1>>, MaxUint32}
Int64Values == {<<0>>, <<127, 127, 1>>, MaxInt64}

PositionSet ==
    {ChunkPosition(sid, bn, off, size, vnum) :
        sid \in Uint32Values, bn \in Uint32Values, off \in Int64Values,
        size \in Uint32Values, vnum \in Int64Values}

\* binary.PutUvarint: the bytes written for x
PutUvarint(x) ==
    [i \in 1..Len(x) |-> IF i < Len(x) THEN x[i] + 128 ELSE x[i]]

\* without the leading zero digits
RECURSIVE normal(_)
normal(x) ==
    IF Len(x) > 1 /\ x[Len(x)] = 0 THEN normal(SubSeq(x, 1, Len(x) - 1)) ELSE x

\* binary.Uvarint on buf from index + 1: the value and the number of bytes
\* read; n = 0 when buf ends inside the number, n < 0 on an overflow of 64
\* bits
RECURSIVE uvarintLoop(_, _, _, _)
uvarintLoop(buf, index, i, x) ==
    IF index + i + 1 > Len(buf) THEN [x |-> <<0>>, n |-> 0]
    ELSE IF i = MaxVarintLen64 THEN [x |-> <<0>>, n |-> 0 - (i + 1)]
    ELSE IF buf[index + i + 1] < 128
    THEN IF i = MaxVarintLen64 - 1 /\ buf[index + i + 1] > 1
         THEN [x |-> <<0>>, n |-> 0 - (i + 1)]
         ELSE [x |-> normal(x \o <<buf[index + i + 1]>>), n |-> i + 1]
    ELSE uvarintLoop(buf, index, i + 1, x \o <<buf[index + i + 1] - 128>>)
Uvarint(buf, index) == uvarintLoop(buf, index, 0, <<>>)

\* uint32(x) of a uint64
toUint32(x) ==
    normal([i \in 1..(IF Len(x) < 5 THEN Len(x) ELSE 5) |->
               IF i = 5 THEN x[i] % 16 ELSE x[i]])

\* ChunkPosition.encode: the five numbers are written one after the other
\* into a buffer of maxLen bytes; a write past its end is an index out of
\* range, a panic
encode(cp, shrink) ==
    LET bytes == PutUvarint(cp.SegmentId) \o PutUvarint(cp.BlockNumber)
                     \o PutUvarint(cp.ChunkOffset) \o PutUvarint(cp.ChunkSize)
                     \o PutUvarint(cp.ValueNum)
    IN  IF Len(bytes) > maxLen THEN [err |-> "panic", buf |-> <<>>]
        ELSE IF shrink THEN [err |-> "nil", buf |-> bytes]
        ELSE [err |-> "nil", buf |-> bytes \o Zeros(maxLen - Len(bytes))]

\* DecodeChunkPosition; buf[index:] with a negative n added to index is a
\* slice out of range
DecodeChunkPosition(buf) ==
    LET bad(n) == n < 0
        built(a, b, c, d, e) ==
            IF bad(a.n) \/ bad(b.n) \/ bad(c.n) \/ bad(d.n)
            THEN [err |-> "panic", pos |-> NilPos]
            ELSE [err |-> "nil",
                  pos |-> ChunkPosition(toUint32(a.x), toUint32(b.x), c.x, toUint32(d.x), e.x)]
        from4(a, b, c, d) == built(a, b, c, d, Uvarint(buf, a.n + b.n + c.n + d.n))
        from3(a, b, c) ==
            IF bad(a.n) \/ bad(b.n) \/ bad(c.n) THEN [err |-> "panic", pos |-> NilPos]
            ELSE from4(a, b, c, Uvarint(buf, a.n + b.n + c.n))
        from2(a, b) ==
            IF bad(a.n) \/ bad(b.n) THEN [err |-> "panic", pos |-> NilPos]
            ELSE from3(a, b, Uvarint(buf, a.n + b.n))
        from1(a) ==
            IF bad(a.n) THEN [err |-> "panic", pos |-> NilPos]
            ELSE from2(a, Uvarint(buf, a.n))
    IN  IF Len(buf) = 0 THEN [err |-> "nil", pos |-> NilPos]
        ELSE from1(Uvarint(buf, 0))

\* cp.Encode() or cp.EncodeFixedSize() on a position of PositionSet
EncodePosition ==
    /\ \E cp \in PositionSet, shrink \in BOOLEAN :
        \E e \in {encode(cp, shrink)} :
            ret' = [op |-> IF shrink THEN "Encode" ELSE "EncodeFixedSize",
                    cp |-> cp, err |-> e.err, buf |-> e.buf]
    /\ UNCHANGED <<walVars, vlog>>

\* DecodeChunkPosition on the bytes the last call encoded
DecodePosition ==
    /\ ret.op \in {"Encode", "EncodeFixedSize"}
    /\ ret.err = "nil"
    /\ \E d \in {DecodeChunkPosition(ret.buf)} :
        ret' = [op |-> "DecodeChunkPosition", cp |-> ret.cp, from |-> ret.op,
                err |-> d.err, pos |-> d.pos]
    /\ UNCHANGED <<walVars, vlog>>

NextPosition == EncodePosition \/ DecodePosition

SpecPosition == Init /\ [][NextPosition]_vars

(***************************************************************************)
(* segment.Write and segment.writeAll from every cursor of a block.        *)
(***************************************************************************)
\* the payload lengths: every length up to two full chunks and one byte,
\* and three full chunks and one byte
ChunkDataLens ==
    0..(2 * (blockSize - chunkHeaderSize) + 1) \cup {3 * (blockSize - chunkHeaderSize) + 1}
BatchDataLens ==
    {0, 1, blockSize - chunkHeaderSize, 2 * (blockSize - chunkHeaderSize) + 1}

\* a segment whose file ends at offset cursor of its first block
segmentAt(cursor) ==
    [id |-> initialSegmentFileID, currentBlockNumber |-> 0, currentBlockSize |-> cursor,
     closed |-> FALSE,
     startupBlock |-> [block |-> Zeros(blockSize), blockNumber |-> -1],
     isStartupTraversal |-> FALSE]

SegmentWriteAt ==
    /\ \E cursor \in 0..(blockSize - 1), len \in ChunkDataLens :
        \E w \in {segmentWrite(segmentAt(cursor), Zeros(cursor), MkData(1, len), NoFault)} :
            ret' = [op |-> "segment.Write", cursor |-> cursor, data |-> <<MkData(1, len)>>,
                    err |-> w.err, file |-> w.file, positions |-> <<w.pos>>,
                    seg |-> w.seg]
    /\ UNCHANGED <<walVars, vlog>>

SegmentWriteAllAt ==
    /\ \E cursor \in 0..(blockSize - 1), len1 \in BatchDataLens, len2 \in BatchDataLens :
        \E data \in {<<MkData(1, len1), MkData(2, len2)>>} :
        \E w \in {segmentWriteAll(segmentAt(cursor), Zeros(cursor), data, NoFault)} :
            ret' = [op |-> "segment.writeAll", cursor |-> cursor, data |-> data,
                    err |-> w.err, file |-> w.file, positions |-> w.positions,
                    seg |-> w.seg]
    /\ UNCHANGED <<walVars, vlog>>

\* segment.Write and segment.writeAll on an open or a closed segment, with
\* the append to the file succeeding or failing after none or seven of its
\* bytes
SegmentWriteFailing ==
    /\ \E cursor \in 0..(blockSize - 1), len \in BatchDataLens, closed \in BOOLEAN,
          fault \in SegFaults :
        \E seg \in {[segmentAt(cursor) EXCEPT !.closed = closed]} :
        \E w \in {segmentWrite(seg, Zeros(cursor), MkData(1, len), fault)} :
            ret' = [op |-> "segment.Write", before |-> seg, cursor |-> cursor,
                    data |-> <<MkData(1, len)>>, fault |-> fault,
                    err |-> w.err, file |-> w.file, seg |-> w.seg]
    /\ UNCHANGED <<walVars, vlog>>

SegmentWriteAllFailing ==
    /\ \E cursor \in 0..(blockSize - 1), len1 \in BatchDataLens, closed \in BOOLEAN,
          fault \in SegFaults :
        \E seg \in {[segmentAt(cursor) EXCEPT !.closed = closed]} :
        \E data \in {<<MkData(1, len1), MkData(2, blockSize)>>} :
        \E w \in {segmentWriteAll(seg, Zeros(cursor), data, fault)} :
            ret' = [op |-> "segment.writeAll", before |-> seg, cursor |-> cursor,
                    data |-> data, fault |-> fault,
                    err |-> w.err, file |-> w.file, seg |-> w.seg]
    /\ UNCHANGED <<walVars, vlog>>

NextRollback == SegmentWriteFailing \/ SegmentWriteAllFailing

SpecRollback == Init /\ [][NextRollback]_vars

NextChunks == SegmentWriteAt \/ SegmentWriteAllAt

SpecChunks == Init /\ [][NextChunks]_vars

\* C1: Write-read round trip.  After any successful Writes, WriteAlls and
\* rotations on an open WAL, a Write of data with len(data) + 7 <=
\* SegmentSize and a 12-byte nonce succeeds, and Read of the position it
\* returned gives back exactly that data and that nonce.
C1_WriteReadRoundTrip ==
    (/\ ret.op = "Write"
     /\ Len(ret.data) + chunkHeaderSize <= SegmentSize
     /\ Len(ret.nonce) = nonceSize)
    => /\ ret.err = "nil"
       /\ \A stale \in StaleBytes : WALRead(ret.pos, stale) = Intact(ret)

\* a Write of a record of several chunks, at an ordinal above zero, into
\* a segment that a rotation created, has returned
C1_Witness ==
    /\ ret.op = "Write"
    /\ ret.err = "nil"
    /\ ret.pos.ChunkSize > Len(ret.data) + chunkHeaderSize
    /\ ret.pos.ValueNum > 0
    /\ ret.pos.SegmentId > initialSegmentFileID
    /\ WALRead(ret.pos, 0) = Intact(ret)

\* C2: batch round trip.  WriteAll on N buffered records (12-byte nonces,
\* pending size <= SegmentSize) returns N positions, and Read of the i-th
\* position gives back the i-th buffered data and nonce, whether or not
\* WriteAll rotated the active segment first.
C2_BatchRoundTrip ==
    (/\ ret.op = "WriteAll"
     /\ ret.size <= SegmentSize
     /\ \A i \in 1..Len(ret.nonce) : Len(ret.nonce[i]) = nonceSize)
    => /\ ret.err = "nil"
       /\ Len(ret.positions) = Len(ret.data)
       /\ \A i \in 1..Len(ret.data), stale \in StaleBytes :
              WALRead(ret.positions[i], stale)
                  = [err |-> "nil", data |-> ret.data[i], nonce |-> ret.nonce[i]]

\* a WriteAll of two records has rotated a segment that could not take
\* the batch and has returned the two positions in the new segment
C2_Witness ==
    /\ ret.op = "WriteAll"
    /\ ret.err = "nil"
    /\ Len(ret.positions) >= 2
    /\ ret.positions[1].SegmentId > initialSegmentFileID
    /\ Len(segFiles[ret.positions[1].SegmentId - 1]) + ret.size > SegmentSize
    /\ ret.positions[2].ValueNum > ret.positions[1].ValueNum
    /\ WALRead(ret.positions[2], 0)
           = [err |-> "nil", data |-> ret.data[2], nonce |-> ret.nonce[2]]

\* C3: iteration completeness.  A reader from NewReader on a WAL whose
\* records were all written successfully yields exactly those records,
\* each once, in write order, each with its nonce, fails on none of them,
\* and returns io.EOF only when all of them have been yielded.
C3_IterationComplete ==
    reader # NoReader
    => /\ Len(yielded) <= Len(written)
       /\ \A i \in 1..Len(yielded) :
              /\ yielded[i].data = written[i].data
              /\ yielded[i].nonce = written[i].nonce
       /\ ret.op = "Next" =>
              /\ ret.err \in {"nil", "EOF"}
              /\ ret.err = "EOF" => Len(yielded) = Len(written)

\* a reader has yielded three records of two segments, one of them after
\* the padding of a block, and has then returned io.EOF
C3_Witness ==
    /\ reader # NoReader
    /\ ret.op = "Next"
    /\ ret.err = "EOF"
    /\ Len(yielded) >= 3
    /\ yielded[1].pos.SegmentId # yielded[Len(yielded)].pos.SegmentId
    /\ \E i \in 1..Len(yielded) :
           yielded[i].pos.ChunkSize > Len(yielded[i].data) + 2 * chunkHeaderSize
    /\ \A i \in 1..Len(yielded) : yielded[i].data = written[i].data

\* C5: nonce ordinals are consecutive.  The ValueNums of the positions
\* returned by the successful Writes and WriteAlls since Open, in write
\* order and in batch order, are cur_num, cur_num + 1, ... with cur_num =
\* size of the nonce file / 12 at Open: none is skipped, none repeated.
C5_ConsecutiveOrdinals ==
    \A i \in (openMark.written + 1)..Len(written) :
        written[i].pos.ValueNum = openMark.curNum + (i - openMark.written - 1)

\* a WAL opened on a nonce file that held a nonce has since returned the
\* two positions of a batch
C5_Witness ==
    /\ openMark.curNum > 0
    /\ ret.op = "WriteAll"
    /\ ret.err = "nil"
    /\ Len(ret.positions) >= 2
    /\ Len(written) = openMark.written + Len(ret.positions)
    /\ ret.positions[2].ValueNum = openMark.curNum + 1

\* C6: positions stay valid.  Read of every position that Write or
\* WriteAll has returned gives back the record's data and nonce, after
\* any later Writes, WriteAlls and rotations, and after Close and Open.
C6_PositionsStayValid ==
    walOpen
    => \A i \in 1..Len(written), stale \in StaleBytes :
           WALRead(written[i].pos, stale) = Intact(written[i])

\* a position returned before a Close and an Open is read after a later
\* write has rotated its segment into the older ones
C6_Witness ==
    /\ walOpen
    /\ openMark.written >= 1
    /\ Len(written) > openMark.written
    /\ written[1].pos.SegmentId \in olderSegments
    /\ written[Len(written)].pos.SegmentId = activeSegment
    /\ ret.op = "Read"
    /\ ret.pos = written[1].pos
    /\ ret.err = "nil"
    /\ ret.data = written[1].data

\* C7: segment size cap.  No segment's size (block number * block size +
\* block size in use) exceeds SegmentSize, and the segments that rotations
\* created carry the ids that follow the first one, each the previous
\* active id + 1.
C7_SegmentSizeCap ==
    /\ \A id \in DOMAIN segs : Size(segs[id]) <= SegmentSize
    /\ DOMAIN segFiles = initialSegmentFileID..activeSegment

\* a Write that isFull let into the active segment has returned
C7_Witness ==
    /\ ret.op = "Write"
    /\ ret.err = "nil"
    /\ ret.pos.SegmentId = activeSegment
    /\ ret.pos.BlockNumber * blockSize + ret.pos.ChunkOffset > 0
    /\ Size(segs[activeSegment]) > SegmentSize

NonceAt(n) == SubSeq(nonceBytes, n * nonceSize + 1, (n + 1) * nonceSize)

\* C4: nonce/record alignment.  In every reachable state, calls that
\* returned an I/O error from the nonce append or from fsync included, the
\* nonce stored at ordinal N is the nonce supplied with the N-th record of
\* the segments (in segment id, file order), for every N below the number
\* of records in the segments.
C4_NonceAlignment ==
    \A n \in 0..(Len(entered) - 1) :
        /\ (n + 1) * nonceSize <= Len(nonceBytes)
        /\ NonceAt(n) = entered[n + 1].nonce

\* a Write has returned the error of the nonce append after the segment
\* took its record
C4_Witness ==
    /\ ret.op = "Write"
    /\ ret.err = "EIO"
    /\ Len(entered) > Len(written)
    /\ entered[Len(entered)].data = ret.data
    /\ Len(nonceBytes) < Len(entered) * nonceSize

\* C9: corruption is reported by Read.  Once a byte of a chunk (header or
\* payload) of the record at position P has been changed in the segment
\* file, Read(P) returns ErrInvalidCRC, neither data nor a crash, and Read
\* of every position written before P returns its original data.
C9_CorruptionReported ==
    (corrupted # 0 /\ walOpen)
    => \A stale \in StaleBytes :
           /\ WALRead(written[corrupted].pos, stale).err = "ErrInvalidCRC"
           /\ \A i \in 1..(corrupted - 1) :
                  WALRead(written[i].pos, stale) = Intact(written[i])

\* a byte of the second record has been changed and Read of its position
\* has returned
C9_Witness ==
    /\ corrupted >= 2
    /\ ret.op = "Read"
    /\ ret.pos = written[corrupted].pos
    /\ ret.err # "nil"

\* C10: errors during iteration are returned.  When the segment reader
\* under Reader.Next fails with an error other than io.EOF, Reader.Next
\* returns that error, yields no record and does not crash; and it returns
\* io.EOF only when every record of its segments has been yielded.
C10_IterationErrors ==
    ret.op = "Next"
    => /\ ret.segErr \notin {"nil", "EOF", "panic"} => ret.err = ret.segErr
       /\ ret.err = "EOF" => Len(yielded) = Len(written)

\* Reader.Next has been called on a record with a changed byte, after it
\* yielded the record before it
C10_Witness ==
    /\ ret.op = "Next"
    /\ ret.segErr = "ErrInvalidCRC"
    /\ corrupted >= 2
    /\ Len(yielded) = corrupted - 1

\* C11: idempotent close.  A Close on a WAL that Close has already closed
\* returns nil and changes nothing of the WAL: no file, no name, no field.
C11_IdempotentClose ==
    [][(renameIds # <<>> /\ ret'.op = "Close")
       => (ret'.err = "nil" /\ UNCHANGED <<disk, walMem>>)]_vars

\* a second Close has returned
C11_Witness ==
    /\ ret.op = "Close"
    /\ ret.err = "nil"
    /\ Len(renameIds) >= 2
    /\ olderSegments = {}
    /\ DOMAIN names.seg = {initialSegmentFileID}

\* C12: use after close is always an error.  On a WAL that Close has
\* closed, Write, WriteAll on a buffer that is not empty, Read,
\* OpenNewActiveSegment and Reader.Next return an error: none of them
\* returns nil, none ends in a panic, none leaves a new segment file.
C12_UseAfterClose ==
    (~walOpen /\ ret.op \in {"Write", "WriteAll", "Read", "OpenNewActiveSegment", "Next"})
    => /\ ret.err \notin {"nil", "panic"}
       /\ DOMAIN segFiles = DOMAIN segs

\* a Write on a closed WAL has returned ErrClosed and left the files as
\* they were
C12_Witness ==
    /\ ~walOpen
    /\ ret.op = "Write"
    /\ ret.err = "ErrClosed"
    /\ Len(written) >= 1
    /\ DOMAIN segFiles = DOMAIN segs

\* C13: Delete removes everything.  When Delete has returned nil, no
\* segment file and no nonce file is left on disk.
C13_DeleteRemovesAll ==
    (ret.op = "Delete" /\ ret.err = "nil") => (DOMAIN names.seg = {} /\ names.nonce = NoName)

\* Delete has returned nil on an open WAL with older segments
C13_Witness ==
    /\ ret.op = "Delete"
    /\ ret.err = "nil"
    /\ renameIds = <<>>
    /\ activeSegment > initialSegmentFileID
    /\ DOMAIN names.seg = {}

\* C14: rename covers every file.  When RenameFileExt(ext) has returned
\* nil, every segment file and the nonce file carry ext and ext is the
\* configured extension.
C14_RenameCoversAll ==
    (ret.op = "RenameFileExt" /\ ret.err = "nil")
    => /\ \A id \in DOMAIN names.seg : names.seg[id] = ret.ext
       /\ names.nonce = ret.ext
       /\ options.SegmentFileExt = ret.ext

\* RenameFileExt has returned nil after a Close of a WAL with older segments
C14_Witness ==
    /\ ret.op = "RenameFileExt"
    /\ ret.err = "nil"
    /\ ret.ext = ExtNEW
    /\ Len(renameIds) >= 2
    /\ \A id \in DOMAIN names.seg : names.seg[id] = ExtNEW
    /\ Cardinality(DOMAIN names.seg) >= 2
\* the errors of the calls that validation refuses
Refusals == {"ErrValueTooLarge", "ErrPendingSizeTooLarge", "ErrExt", "ErrNilStart"}

\* C15: validation failures change nothing.  A Write of a record with
\* len + 7 > SegmentSize returns ErrValueTooLarge, a WriteAll of a batch
\* whose pending size exceeds SegmentSize returns ErrPendingSizeTooLarge,
\* Open and RenameFileExt with an extension that does not start with a dot
\* and NewReaderWithStart(nil) return an error; and the step of a refused
\* call leaves the files, their names, the segments, the active id, the
\* older map, the nonce counter and the configured extension as they were.
C15_ValidationChangesNothing ==
    [][/\ (ret'.op = "Write" /\ Len(ret'.data) + chunkHeaderSize > SegmentSize)
          => ret'.err = "ErrValueTooLarge"
       /\ (ret'.op = "WriteAll" /\ ret'.size > SegmentSize)
          => ret'.err = "ErrPendingSizeTooLarge"
       /\ (ret'.op \in {"Open", "RenameFileExt"} /\ ~HasDotPrefix(ret'.ext))
          => ret'.err = "ErrExt"
       /\ (ret'.op = "NewReaderWithStart" /\ ret'.start = NilPos)
          => ret'.err = "ErrNilStart"
       /\ ret'.err \in Refusals
          => UNCHANGED <<disk, walMem, reader, walOpen>>]_vars

\* RenameFileExt has been refused on a WAL with records and an older segment
C15_Witness ==
    /\ ret.op = "RenameFileExt"
    /\ ret.ext = ExtNoDot
    /\ ret.err = "ErrExt"
    /\ Len(written) >= 1
    /\ olderSegments # {}
    /\ names.nonce = ExtSEG
\* C16: WriteAll always empties the buffer.  When WriteAll has returned,
\* with nil or with any error (ErrPendingSizeTooLarge, a failed rotation, a
\* failed write to the segment file), the pending buffer is empty and the
\* pending size is 0.
C16_WriteAllEmptiesBuffer ==
    ret.op = "WriteAll"
    => (pendingWrites = <<>> /\ pendingNonceWrites = <<>> /\ pendingSize = 0)

\* a WriteAll of a batch of two records has failed in the write to the
\* segment file
C16_Witness ==
    /\ ret.op = "WriteAll"
    /\ ret.err = "EIO"
    /\ Len(ret.data) >= 2
    /\ entered = <<>>
    /\ Len(segFiles[activeSegment]) = chunkHeaderSize
    /\ pendingWrites = <<>>
\* C17: WriteAll propagates nonce failures.  When WriteAll has returned
\* positions and nil, the nonce file holds, at the ordinal stamped on each
\* position, the nonce buffered with that record: a failed nonce append
\* makes WriteAll return an error.
C17_WriteAllNonceFailures ==
    (ret.op = "WriteAll" /\ ret.err = "nil")
    => \A i \in 1..Len(ret.positions) :
           /\ (ret.positions[i].ValueNum + 1) * nonceSize <= Len(nonceBytes)
           /\ NonceAt(ret.positions[i].ValueNum) = ret.nonce[i]

\* a WriteAll of two records has returned nil with both nonces appended at
\* the ordinals of its positions, after an earlier record
C17_Witness ==
    /\ ret.op = "WriteAll"
    /\ ret.err = "nil"
    /\ Len(ret.positions) = 2
    /\ ret.positions[1].ValueNum = 1
    /\ ret.positions[2].ValueNum = 2
    /\ NonceAt(1) = ret.nonce[1]
    /\ NonceAt(2) = ret.nonce[2]
    /\ Len(nonceBytes) = 3 * nonceSize
\* C18: a failed Write adds no record.  The step of a Write that returns
\* an I/O error leaves the block number and the block size of the active
\* segment and the nonce counter cur_num at their values before the call.
C18_FailedWriteAddsNothing ==
    [][(ret'.op = "Write" /\ ret'.err = "EIO")
       => /\ segs'[activeSegment'].currentBlockNumber = segs[activeSegment].currentBlockNumber
          /\ segs'[activeSegment'].currentBlockSize = segs[activeSegment].currentBlockSize
          /\ nonceFile'.curNum = nonceFile.curNum]_vars

\* a Write has returned the error of the fsync of its rotation, after a
\* record, and no segment has taken its record
C18_Witness ==
    /\ ret.op = "Write"
    /\ ret.err = "EIO"
    /\ Len(written) >= 1
    /\ Len(entered) = Len(written)
    /\ activeSegment = initialSegmentFileID
    /\ Len(nonceBytes) = Len(written) * nonceSize
    /\ nonceFile.curNum = Len(written)
\* the offset in its segment file at which the chunks of a record end
recordEnd(pos) == pos.BlockNumber * blockSize + pos.ChunkOffset + pos.ChunkSize

\* C19: sync per write.  With Sync = true, in every state, every record
\* that a Write returned a position for lies, with its nonce, in the part
\* of the segment file and of the nonce file that an fsync has made
\* durable.
C19_SyncPerWrite ==
    options.Sync
    => \A i \in 1..Len(written) :
           written[i].by = "Write"
           => /\ durable.seg[written[i].pos.SegmentId] >= recordEnd(written[i].pos)
              /\ durable.nonce >= (written[i].pos.ValueNum + 1) * nonceSize

\* with Sync = true a Write has returned after a WriteAll and a rotation,
\* and both files are durable up to their ends
C19_Witness ==
    /\ options.Sync
    /\ ret.op = "Write"
    /\ ret.err = "nil"
    /\ Len(written) = 3
    /\ written[1].by = "WriteAll"
    /\ activeSegment > initialSegmentFileID
    /\ ret.pos.SegmentId = activeSegment
    /\ recordEnd(ret.pos) = Len(segFiles[activeSegment])
    /\ durable.seg[activeSegment] = Len(segFiles[activeSegment])
    /\ durable.nonce = Len(nonceBytes)

\* C20: bytes per sync.  With Sync = false and BytesPerSync > 0, after a
\* Write or a WriteAll has returned nil fewer than BytesPerSync bytes of the
\* active segment are not yet durable and every nonce is durable when the
\* segment is, and the byte counter is 0 after every Sync and after every
\* rotation, OpenNewActiveSegment included.
C20_BytesPerSync ==
    (~options.Sync /\ options.BytesPerSync > 0 /\ ret.err = "nil")
    => /\ ret.op \in {"Write", "WriteAll"}
          => Len(segFiles[activeSegment]) - durable.seg[activeSegment] < options.BytesPerSync
       /\ ret.op \in {"Sync", "OpenNewActiveSegment"} => bytesWrite = 0

\* with BytesPerSync = 32 the second Write of 11 bytes has made the
\* counter reach 36 and has synced both files
C20_Witness ==
    /\ ~options.Sync
    /\ options.BytesPerSync > 0
    /\ ret.op = "Write"
    /\ ret.err = "nil"
    /\ Len(written) = 2
    /\ bytesWrite = 0
    /\ activeSegment = initialSegmentFileID
    /\ durable.seg[activeSegment] = Len(segFiles[activeSegment])
    /\ durable.seg[activeSegment] >= options.BytesPerSync
    /\ durable.nonce = 2 * nonceSize
\* C21: explicit durability point.  When Sync has returned nil, and when
\* Close has returned nil, every segment file and the nonce file are
\* durable up to their ends: every record appended so far and its nonce
\* are on stable storage.
C21_DurabilityPoint ==
    (ret.op \in {"Sync", "Close"} /\ ret.err = "nil")
    => /\ \A id \in DOMAIN segFiles : durable.seg[id] = Len(segFiles[id])
       /\ durable.nonce = Len(nonceBytes)

\* a Sync has returned nil after a Write without a sync policy, and the
\* active segment is durable up to the end of the record
C21_Witness ==
    /\ ~options.Sync
    /\ options.BytesPerSync = 0
    /\ ret.op = "Sync"
    /\ ret.err = "nil"
    /\ Len(written) >= 1
    /\ written[Len(written)].by = "Write"
    /\ durable.seg[activeSegment] = Len(segFiles[activeSegment])
    /\ durable.seg[activeSegment] >= recordEnd(written[Len(written)].pos)
\* C22: the documented usage works without nonces.  A record written with
\* Write(data, nil) is read back by Read at the returned position (the
\* data, no error), and a reader from NewReader has yielded every such
\* record, in write order, when it returns io.EOF.
C22_UsageWithoutNonces ==
    /\ (ret.op = "Write" /\ ret.nonce = <<>>)
       => /\ ret.err = "nil"
          /\ \A stale \in StaleBytes :
                 /\ WALRead(ret.pos, stale).err = "nil"
                 /\ WALRead(ret.pos, stale).data = ret.data
    /\ (ret.op = "Next" /\ ret.err = "EOF"
        /\ \A i \in 1..Len(written) : written[i].nonce = <<>>)
       => /\ Len(yielded) = Len(written)
          /\ \A i \in 1..Len(yielded) : yielded[i].data = written[i].data

\* three records have been written with a nil nonce, the last one after a
\* rotation, and the nonce file is empty
C22_Witness ==
    /\ ret.op = "Write"
    /\ ret.err = "nil"
    /\ ret.nonce = <<>>
    /\ Len(written) = 3
    /\ ret.pos.SegmentId > initialSegmentFileID
    /\ nonceBytes = <<>>
    /\ nonceFile.curNum = 0
\* what WAL.PendingWrites adds up for the records of a batch that go to
\* partition part
RECURSIVE partitionPendingSize(_, _, _)
partitionPendingSize(records, part, n) ==
    IF records = <<>> THEN 0
    ELSE (IF getKeyPartition(Head(records).key, n) = part
          THEN maxDataWriteSize(4 + Len(Head(records).key) + Len(Head(records).value)
                                + gcmTagSize)
          ELSE 0)
         + partitionPendingSize(Tail(records), part, n)

\* the positions of a returned writeBatch are one per record: those of each
\* partition follow the records of that partition in input order, carry
\* their keys and the partition of the key, and read gives the record back
positionsMatch(r) ==
    /\ r.err = "nil"
    /\ Len(r.positions) = Len(r.records)
    /\ \A i \in 1..Len(r.positions) :
           r.positions[i].partition = getKeyPartition(r.positions[i].key, vlog.partitionNum)
    /\ \A part \in 0..(vlog.partitionNum - 1) :
        \E ps \in {SelectSeq(r.positions, LAMBDA kp : kp.partition = part)} :
        \E rs \in {SelectSeq(r.records,
                             LAMBDA rec : getKeyPartition(rec.key, vlog.partitionNum) = part)} :
            /\ Len(ps) = Len(rs)
            /\ \A i \in 1..Len(ps) :
                /\ ps[i].key = rs[i].key
                /\ \A stale \in StaleBytes :
                       valueLogRead(vlog, ps[i], stale)
                           = [err |-> "nil", key |-> rs[i].key, value |-> rs[i].value]

\* C23: Value-log batch write.  A writeBatch of a single caller during
\* which no write failed, and whose records of each partition add up to a
\* pending size of at most SegmentSize, returns nil and exactly one
\* KeyPosition per record, with the record's key and partition
\* hash(key) mod partitionNum; read of the position returns the record's key
\* and value, and the positions of one partition keep the input order.
C23_BatchWrite ==
    (/\ ret.op = "writeBatch"
     /\ ~ret.faulted
     /\ \A part \in 0..(vlog.partitionNum - 1) :
            partitionPendingSize(ret.records, part, vlog.partitionNum) <= SegmentSize)
    => positionsMatch(ret)

\* C23 as stated, for every batch: without a failed write every writeBatch
\* returns one readable position per record
C23_EveryBatch ==
    (ret.op = "writeBatch" /\ ~ret.faulted) => positionsMatch(ret)

\* a batch of three records over two partitions returned its positions
\* after the WAL of a partition rotated
C23_Witness ==
    /\ ret.op = "writeBatch"
    /\ ~ret.faulted
    /\ ret.err = "nil"
    /\ Len(ret.records) = MaxBatchLen
    /\ \E i, j \in 1..Len(ret.positions) :
        /\ i < j
        /\ ret.positions[i].partition = ret.positions[j].partition
        /\ ret.positions[i].position.SegmentId > initialSegmentFileID
    /\ \E i, j \in 1..Len(ret.positions) :
           ret.positions[i].partition # ret.positions[j].partition
\* the pending writes of partition part are the first k records of the
\* batch for that partition, encoded
pendingIsOf(b, part, k) ==
    /\ Len(vlog.pending[part].pendingWrites) = k
    /\ Len(vlog.pending[part].pendingNonceWrites) = k
    /\ \A i \in 1..k :
        \E d \in {decodeValueLogRecord(vlog.pending[part].pendingWrites[i],
                                       vlog.pending[part].pendingNonceWrites[i])} :
            /\ d.err = "nil"
            /\ d.key = b.partitionRecords[part][i].key
            /\ d.value = b.partitionRecords[part][i].value

\* C24: Value-log batch failure.  When the WriteAll of a partition fails,
\* writeBatch returns the first error of its tasks and no positions, no
\* task is left waiting (a task that has not returned can take its next
\* step: posChan has room for its send), and at the return the pending
\* buffer of every partition WAL is empty, so that the tasks of the next
\* writeBatch hand to WriteAll the records of their own batch only.
C24_BatchFailure ==
    /\ (/\ ret.op = "writeBatch"
        /\ \E p \in DOMAIN ret.task : ret.task[p].err \notin {"nil", "canceled"})
       => /\ ret.err \notin {"nil", "canceled"}
          /\ \E p \in DOMAIN ret.task : ret.task[p].err = ret.err
          /\ ret.positions = <<>>
          /\ \A p \in DOMAIN ret.task : ret.task[p].pc \in {"none", "done"}
          /\ \A p \in DOMAIN vlog.pending : vlog.pending[p] = NoPending
    /\ (vlog # NoVlog /\ vlog.batch # NoBatch)
       => \A p \in DOMAIN vlog.batch.task :
            IF vlog.batch.task[p].pc = "loop"
            THEN /\ pendingIsOf(vlog.batch, p, vlog.batch.task[p].i)
                 /\ Len(vlog.batch.posChan) < vlog.partitionNum
            ELSE vlog.pending[p] = NoPending

\* the second writeBatch failed in one partition after the first one had
\* failed too: a task was cancelled and every task has returned
C24_Witness ==
    /\ ret.op = "writeBatch"
    /\ ret.err = "EIO"
    /\ vlog.batches = MaxBatches
    /\ \E p \in DOMAIN ret.task : ret.task[p].err = "canceled"
\* openValueLog has opened, for every partition, the ids of the segment
\* files that carried the partition's extension before the call (the
\* initial id when there was none), each id once
opensOwnFiles(before, after) ==
    \A p \in DOMAIN after.walFiles :
        /\ after.walFiles[p].older \cup {after.walFiles[p].active}
               = (IF DOMAIN before.walFiles[p].files = {} THEN {initialSegmentFileID}
                  ELSE DOMAIN before.walFiles[p].files)
        /\ after.walFiles[p].active \notin after.walFiles[p].older

\* a scan of a partition ended with io.EOF and yielded records of that
\* partition only, the record of every position writeBatch returned for the
\* partition exactly once
scansOwnRecords(v, r) ==
    /\ r.err = "EOF"
    /\ \A i \in 1..Len(r.records) :
        \E d \in {decodeValueLogRecord(r.records[i].data, r.records[i].nonce)} :
            d.err = "nil" /\ getKeyPartition(d.key, v.partitionNum) = r.partition
    /\ \A k \in 1..Len(v.stored) :
        v.stored[k].partition = r.partition
        => Cardinality({i \in 1..Len(r.records) :
               /\ r.records[i].pos.SegmentId = v.stored[k].position.SegmentId
               /\ r.records[i].pos.BlockNumber = v.stored[k].position.BlockNumber
               /\ r.records[i].pos.ChunkOffset = v.stored[k].position.ChunkOffset}) = 1

\* C28: Partitions stay separate across reopen.  Every openValueLog on the
\* directories of a closed value log opens, for each partition i, exactly
\* the ids that have a file with the extension .VLOG.i, each once, and a
\* scan of partition i yields exactly the records of partition i, each once.
C28_PartitionsSeparate ==
    [][/\ ret'.op = "openValueLog" => opensOwnFiles(vlog, vlog')
       /\ ret'.op = "scan" => scansOwnRecords(vlog', ret')]_vars

\* after a reopen, a scan of a partition yielded the two records that a
\* batch had stored in it
C28_Witness ==
    /\ ret.op = "scan"
    /\ vlog.opens = MaxOpens
    /\ Len(SelectSeq(vlog.stored, LAMBDA kp : kp.partition = ret.partition)) > 1
    /\ scansOwnRecords(vlog, ret)
\* position p is at or after position q in the order of segment id, block
\* number, chunk offset
atOrAfter(p, q) ==
    \/ p.SegmentId > q.SegmentId
    \/ p.SegmentId = q.SegmentId /\ p.BlockNumber > q.BlockNumber
    \/ /\ p.SegmentId = q.SegmentId
       /\ p.BlockNumber = q.BlockNumber
       /\ p.ChunkOffset >= q.ChunkOffset

\* C25: Reader with start position.  For every position p, NewReaderWithStart(p)
\* returns a reader whose Next calls yield, in write order and up to io.EOF,
\* exactly the records written at positions at or after p in the order of
\* (SegmentId, BlockNumber, ChunkOffset); it yields nothing when p lies
\* beyond the last record.
C25_ReaderWithStart ==
    (ret.op = "NewReaderWithStart" /\ ret.start # NilPos)
    => /\ ret.err = "nil"
       /\ \A stale \in StaleBytes :
           \E all \in {readAll(walState, reader, stale, <<>>)} :
           \E expected \in {SelectSeq(written, LAMBDA w : atOrAfter(w.pos, ret.start))} :
               /\ all.err = "EOF"
               /\ Len(all.records) = Len(expected)
               /\ \A i \in 1..Len(expected) : all.records[i].data = expected[i].data

\* a reader started at the second of three records of one segment yields
\* the second and the third
C25_Witness ==
    /\ ret.op = "NewReaderWithStart"
    /\ ret.err = "nil"
    /\ Len(written) = MaxRecords
    /\ ret.start.SegmentId = written[2].pos.SegmentId
    /\ ret.start.BlockNumber = written[2].pos.BlockNumber
    /\ ret.start.ChunkOffset = written[2].pos.ChunkOffset
    /\ written[1].pos.SegmentId = written[3].pos.SegmentId
    /\ \A stale \in StaleBytes :
           \E all \in {readAll(walState, reader, stale, <<>>)} :
               /\ Len(all.records) = 2
               /\ all.records[1].data = written[2].data
               /\ all.records[2].data = written[3].data
\* C26: Reader with maximum segment.  The reader of NewReaderWithMax(segId)
\* with segId > 0 yields, up to io.EOF, exactly the records of the segments
\* with id <= segId, in ascending segment id and in file order within a
\* segment, each with the nonce it was written with and with the ValueNum
\* stamped on its position at write time; with segId = 0 it yields the
\* records of every segment.
C26_ReaderWithMax ==
    ret.op = "NewReaderWithMax"
    => \A stale \in StaleBytes :
        \E all \in {readAll(walState, reader, stale, <<>>)} :
        \E expected \in {SelectSeq(written,
                             LAMBDA w : ret.segId = 0 \/ w.pos.SegmentId <= ret.segId)} :
            /\ all.err = "EOF"
            /\ Len(all.records) = Len(expected)
            /\ \A i \in 1..Len(expected) :
                /\ all.records[i].data = expected[i].data
                /\ all.records[i].nonce = expected[i].nonce
                /\ all.records[i].pos.ValueNum = expected[i].pos.ValueNum
                /\ all.records[i].pos.SegmentId = expected[i].pos.SegmentId
                /\ all.records[i].pos.BlockNumber = expected[i].pos.BlockNumber
                /\ all.records[i].pos.ChunkOffset = expected[i].pos.ChunkOffset

\* a reader limited to the first two of three segments leaves out the
\* record of the third and yields the records of the first two
C26_Witness ==
    /\ ret.op = "NewReaderWithMax"
    /\ ret.segId = 2
    /\ activeSegment = 3
    /\ Len(written) = MaxRecords
    /\ written[1].pos.SegmentId = 1
    /\ written[2].pos.SegmentId = 2
    /\ written[3].pos.SegmentId = 3
    /\ Len(readAll(walState, reader, 0, <<>>).records) = 2
\* C27: Position encoding round trip.  For every ChunkPosition within the
\* ranges of its field types, Encode and EncodeFixedSize succeed, the five
\* varints fit in maxLen bytes, EncodeFixedSize returns exactly maxLen
\* bytes, and DecodeChunkPosition of either encoding returns a position
\* equal to the original.
C27_PositionRoundTrip ==
    /\ ret.op \in {"Encode", "EncodeFixedSize"}
       => /\ ret.err = "nil"
          /\ Len(ret.buf) <= maxLen
          /\ ret.op = "EncodeFixedSize" => Len(ret.buf) = maxLen
    /\ ret.op = "DecodeChunkPosition"
       => /\ ret.err = "nil"
          /\ ret.pos = ret.cp

\* the position with the largest segment id, block number and chunk size
\* and a three-byte offset and ordinal came back from its fixed-size
\* encoding
C27_Witness ==
    /\ ret.op = "DecodeChunkPosition"
    /\ ret.from = "EncodeFixedSize"
    /\ ret.cp.SegmentId = MaxUint32
    /\ ret.cp.BlockNumber = MaxUint32
    /\ ret.cp.ChunkSize = MaxUint32
    /\ Len(ret.cp.ChunkOffset) = 3
    /\ Len(ret.cp.ValueNum) = 3
    /\ ret.pos = ret.cp
\* the chunks found in a segment file from the header at offset at up to
\* the first Full or Last chunk, each with its offset in its block, the
\* length and the type of its header and its payload; ok is false when the
\* file ends before the chain does
RECURSIVE chunkChain(_, _, _)
chunkChain(file, at, chain) ==
    LET len == Uint16(SubSeq(file, at + 5, at + 6))
        chunk == [offset |-> at % blockSize, length |-> len, type |-> file[at + 7],
                  payload |-> SubSeq(file, at + 8, at + 7 + len)]
    IN  IF at + chunkHeaderSize > Len(file) THEN [ok |-> FALSE, chain |-> chain]
        ELSE IF at + chunkHeaderSize + len > Len(file) THEN [ok |-> FALSE, chain |-> chain]
        ELSE IF file[at + 7] \in {ChunkTypeFull, ChunkTypeLast}
        THEN [ok |-> TRUE, chain |-> Append(chain, chunk)]
        ELSE chunkChain(file, at + chunkHeaderSize + len, Append(chain, chunk))

\* the chain of the i-th record of the call in ret
chainOf(i) ==
    chunkChain(ret.file,
               ret.positions[i].BlockNumber * blockSize + ret.positions[i].ChunkOffset, <<>>)

\* C29: No chunk crosses a block.  For every cursor of a block and every
\* payload length, each chunk that segment.Write or segment.writeAll puts
\* in the file has its header inside one block (offset + 7 <= blockSize),
\* its payload inside the same block (offset + 7 + length <= blockSize),
\* and a payload length that fits the 16 bits of the header.
C29_NoChunkCrossesBlock ==
    ret.op \in {"segment.Write", "segment.writeAll"}
    => /\ ret.err = "nil"
       /\ Len(ret.positions) = Len(ret.data)
       /\ \A i \in 1..Len(ret.positions) :
           \E c \in {chainOf(i)} :
               /\ c.ok
               /\ \A k \in 1..Len(c.chain) :
                   /\ c.chain[k].offset + chunkHeaderSize <= blockSize
                   /\ c.chain[k].offset + chunkHeaderSize + c.chain[k].length <= blockSize
                   /\ c.chain[k].length < 65536

\* a record written at a cursor that leaves no room for a header took a
\* First, a Middle and a Last chunk after the padding
C29_Witness ==
    /\ ret.op = "segment.Write"
    /\ ret.cursor + chunkHeaderSize >= blockSize
    /\ ret.positions[1].BlockNumber = 1
    /\ Len(chainOf(1).chain) = 3
    /\ \A k \in 1..3 : chainOf(1).chain[k].offset + chunkHeaderSize
                           + chainOf(1).chain[k].length <= blockSize

RECURSIVE payloads(_)
payloads(chain) == IF chain = <<>> THEN <<>> ELSE Head(chain).payload \o payloads(Tail(chain))

\* C30: Chunk chain shape.  A record that fits the rest of its block is one
\* Full chunk; any other record is one First chunk that ends exactly at the
\* end of its block, then Middle chunks of blockSize - 7 payload bytes each,
\* then exactly one Last chunk; the payloads in order are the record's data;
\* the chain takes ChunkSize consecutive bytes, so the chunks of the next
\* record of a batch start after the Last chunk.
C30_ChunkChainShape ==
    ret.op \in {"segment.Write", "segment.writeAll"}
    => /\ ret.err = "nil"
       /\ Len(ret.positions) = Len(ret.data)
       /\ \A i \in 1..Len(ret.positions) :
           \E c \in {chainOf(i)} :
           \E n \in {Len(chainOf(i).chain)} :
               /\ c.ok
               /\ payloads(c.chain) = ret.data[i]
               /\ n * chunkHeaderSize + Len(ret.data[i]) = ret.positions[i].ChunkSize
               /\ IF ret.positions[i].ChunkOffset + chunkHeaderSize + Len(ret.data[i])
                         <= blockSize
                  THEN n = 1 /\ c.chain[1].type = ChunkTypeFull
                  ELSE /\ n >= 2
                       /\ c.chain[1].type = ChunkTypeFirst
                       /\ c.chain[1].offset + chunkHeaderSize + c.chain[1].length = blockSize
                       /\ c.chain[n].type = ChunkTypeLast
                       /\ \A k \in 2..(n - 1) :
                           /\ c.chain[k].type = ChunkTypeMiddle
                           /\ c.chain[k].offset = 0
                           /\ c.chain[k].length = blockSize - chunkHeaderSize
       /\ \A i \in 1..(Len(ret.positions) - 1) :
              ret.positions[i + 1].BlockNumber * blockSize + ret.positions[i + 1].ChunkOffset
                  >= ret.positions[i].BlockNumber * blockSize + ret.positions[i].ChunkOffset
                         + ret.positions[i].ChunkSize

\* a batch of two records that both took a First, a Middle and a Last chunk
C30_Witness ==
    /\ ret.op = "segment.writeAll"
    /\ ret.err = "nil"
    /\ Len(ret.positions) = 2
    /\ \A i \in 1..2 :
        /\ Len(chainOf(i).chain) = 3
        /\ chainOf(i).chain[2].type = ChunkTypeMiddle
        /\ payloads(chainOf(i).chain) = ret.data[i]
\* the offset in the file of the position p
fileOffset(p) == p.BlockNumber * blockSize + p.ChunkOffset

\* the cursor at which the i-th record of the call in ret was framed: the
\* cursor of the call, or the end of the record before it in the batch
cursorOf(i) ==
    IF i = 1 THEN ret.cursor
    ELSE fileOffset(ret.positions[i - 1]) + ret.positions[i - 1].ChunkSize

\* C31: Position and ChunkSize of a write.  For every cursor and payload
\* length the returned position is where the first chunk of the record
\* starts: at the cursor, or, when cursor-in-block + 7 >= blockSize, at
\* offset 0 of the next block after zero padding up to the block end; a
\* cursor at a block end (in-block cursor 0) is used as it is, without
\* padding.  ChunkSize is 7 per chunk plus the payload length, without the
\* padding, and after the call the cursor of the segment is the position of
\* the last record advanced by its ChunkSize, which is the end of the file.
C31_PositionAndChunkSize ==
    ret.op \in {"segment.Write", "segment.writeAll"}
    => /\ ret.err = "nil"
       /\ \A i \in 1..Len(ret.positions) :
           \E c \in {cursorOf(i)} :
           \E p \in {ret.positions[i]} :
           \E chain \in {chainOf(i)} :
               /\ IF (c % blockSize) + chunkHeaderSize >= blockSize
                  THEN /\ p.ChunkOffset = 0
                       /\ p.BlockNumber = (c \div blockSize) + 1
                       /\ \A k \in (c + 1)..fileOffset(p) : ret.file[k] = 0
                  ELSE fileOffset(p) = c
               /\ chain.ok
               /\ chain.chain[1].type \in {ChunkTypeFull, ChunkTypeFirst}
               /\ p.ChunkSize = Len(chain.chain) * chunkHeaderSize + Len(ret.data[i])
       /\ \E last \in {ret.positions[Len(ret.positions)]} :
           /\ Size(ret.seg) = fileOffset(last) + last.ChunkSize
           /\ Size(ret.seg) = Len(ret.file)
           /\ ret.seg.currentBlockSize < blockSize

\* a batch whose first record was padded to the next block and ended
\* exactly at a block end, so that the second starts at offset 0 of the
\* following block with no padding
C31_Witness ==
    /\ ret.op = "segment.writeAll"
    /\ ret.cursor + chunkHeaderSize >= blockSize
    /\ ret.positions[1].BlockNumber = 1
    /\ cursorOf(2) % blockSize = 0
    /\ fileOffset(ret.positions[2]) = cursorOf(2)
    /\ Len(ret.data[2]) > blockSize
\* C32: The rotation estimate is an upper bound.  For every cursor of a
\* block and every payload length L, the bytes that one segment.Write
\* appends to the file (padding, 7 per chunk, L) are at most
\* maxDataWriteSize(L).
C32_EstimateIsUpperBound ==
    (ret.op = "segment.Write" /\ ret.err = "nil")
    => Len(ret.file) - ret.cursor <= maxDataWriteSize(Len(ret.data[1]))

\* a padded write of a single Full chunk stayed within the estimate
C32_Witness ==
    /\ ret.op = "segment.Write"
    /\ ret.err = "nil"
    /\ ret.cursor + chunkHeaderSize >= blockSize
    /\ Len(chainOf(1).chain) = 1
    /\ Len(ret.file) - ret.cursor > chunkHeaderSize + Len(ret.data[1])
    /\ Len(ret.file) - ret.cursor <= maxDataWriteSize(Len(ret.data[1]))
\* C33: Segment-level rollback.  Whenever segment.Write or segment.writeAll
\* returns an error (closed segment, failed append to the file, also after
\* the records of a batch were framed), currentBlockNumber and
\* currentBlockSize of the segment are what they were before the call.
C33_SegmentRollback ==
    (ret.op \in {"segment.Write", "segment.writeAll"} /\ ret.err # "nil")
    => /\ ret.seg.currentBlockNumber = ret.before.currentBlockNumber
       /\ ret.seg.currentBlockSize = ret.before.currentBlockSize

\* a batch of two records, framed over several blocks from a cursor that
\* needed padding, failed in the append after seven bytes and left the
\* counters where they were
C33_Witness ==
    /\ ret.op = "segment.writeAll"
    /\ ret.err = "EIO"
    /\ ret.fault = Fault(chunkHeaderSize)
    /\ Len(ret.file) = ret.cursor + chunkHeaderSize
    /\ ret.cursor + chunkHeaderSize >= blockSize
    /\ ret.seg = ret.before
\* C34: Partial bytes of a failed write are harmless.  In every reachable
\* state the in-memory size of the active segment (block number * block
\* size + block size used) is the offset at which the next append lands
\* in its append-only file, that is the length of the file.
C34_SizeIsAppendOffset ==
    walOpen => Size(segs[activeSegment]) = Len(segFiles[activeSegment])

\* a Write that returned nil after an earlier segment write had left bytes
\* in the file: every nonce is in place, the record lies past the position
\* the Write returned, and Read at that position does not return it
C34_Witness ==
    /\ ret.op = "Write"
    /\ ret.err = "nil"
    /\ \A i \in 1..Len(written) : written[i].by = "Write"
    /\ Len(nonceBytes) = nonceSize * Len(written)
    /\ Len(segFiles[activeSegment]) > Size(segs[activeSegment])
    /\ \A stale \in StaleBytes :
           WALRead(ret.pos, stale) # Intact([data |-> ret.data, nonce |-> ret.nonce])
\* C35: Nonce file in lock-step.  In every reachable state, whatever nonce
\* byte strings the callers passed, the length of the nonce file is
\* 12 * cur_num and cur_num is the number of records stored in the
\* segments.
C35_NonceFileLockStep ==
    walOpen
    => /\ Len(nonceBytes) = nonceSize * nonceFile.curNum
       /\ nonceFile.curNum = Len(written)

\* a Write with a nonce of five bytes returned nil: the record is stored,
\* cur_num counts it and the nonce file is five bytes long
C35_Witness ==
    /\ ret.op = "Write"
    /\ ret.err = "nil"
    /\ Len(ret.nonce) = ShortNonceLen
    /\ Len(written) = 1
    /\ nonceFile.curNum = 1
    /\ Len(nonceBytes) = ShortNonceLen
\* C36: Reader ordinals match write ordinals whenever segments are
\* skipped.  Every record that a reader returned by NewReaderWithStart
\* yields comes with the nonce it was written with and with the ValueNum
\* its write stamped, also when the reader skipped whole segments.
C36_OrdinalsAfterSkip ==
    (ret.op = "NewReaderWithStart" /\ ret.err = "nil")
    => \A stale \in StaleBytes :
       \E all \in {readAll(walState, reader, stale, <<>>)} :
       \A i \in 1..Len(all.records), j \in 1..Len(written) :
           (all.records[i].data = written[j].data)
           => /\ all.records[i].nonce = written[j].nonce
              /\ all.records[i].pos.ValueNum = written[j].pos.ValueNum

\* a reader started at the first record of the second segment skipped the
\* first segment and yields the record written third, at its position,
\* with ordinal 0 and the nonce of the record written first
C36_Witness ==
    /\ ret.op = "NewReaderWithStart"
    /\ ret.err = "nil"
    /\ Len(written) = MaxRecords
    /\ written[3].pos.SegmentId = initialSegmentFileID + 1
    /\ written[3].pos.ValueNum = 2
    /\ ret.start.SegmentId = written[3].pos.SegmentId
    /\ ret.start.BlockNumber = 0
    /\ ret.start.ChunkOffset = 0
    /\ \A stale \in StaleBytes :
       \E all \in {readAll(walState, reader, stale, <<>>)} :
           /\ Len(all.records) >= 1
           /\ all.records[1].data = written[3].data
           /\ all.records[1].pos.SegmentId = written[3].pos.SegmentId
           /\ all.records[1].pos.ValueNum = 0
           /\ all.records[1].nonce = written[1].nonce
\* C37: Startup-traversal reads are equivalent to normal reads.  A read of
\* a segment in startup traversal returns the bytes, the next position
\* and the error that the same read returns with the flag off; a block
\* taken from the cache is a full block of the file; after a successful
\* write the cached block number of the written segment is -1.
C37_TraversalReadsEquivalent ==
    /\ (ret.op = "segment.Read" /\ ret.traversal)
       => /\ \A stale \in StaleBytes :
              \E off \in {readInternal(segs[ret.id], segFiles[ret.id], ret.blockNumber,
                                       ret.chunkOffset, stale)} :
                  /\ off.err = ret.err
                  /\ off.value = ret.value
                  /\ off.next = ret.next
          /\ \A i \in 1..Len(ret.reused) :
                 (ret.reused[i] + 1) * blockSize <= Len(segFiles[ret.id])
    /\ (ret.op = "Write" /\ ret.err = "nil")
       => segs[ret.pos.SegmentId].startupBlock.blockNumber = -1

\* a traversal read of a record that spans several blocks took its first
\* block from the cache, read the others from the file and returned the
\* record
C37_Witness ==
    /\ ret.op = "segment.Read"
    /\ ret.traversal
    /\ ret.err = "nil"
    /\ ret.reused = <<ret.blockNumber>>
    /\ segs[ret.id].startupBlock.blockNumber > ret.blockNumber
    /\ \E i \in 1..Len(written) :
           /\ written[i].pos.SegmentId = ret.id
           /\ written[i].pos.BlockNumber = ret.blockNumber
           /\ written[i].pos.ChunkOffset = ret.chunkOffset
           /\ written[i].data = ret.value
\* C38: Positions grow within a segment.  Of two records written to a
\* segment one after the other, the later one has the strictly greater
\* (BlockNumber, ChunkOffset), its first chunk starts at or after the end
\* of the last chunk of the earlier one, and the position that the read of
\* the earlier record computes as the start of the next record is the
\* position the writer gave the later one.
C38_PositionsGrow ==
    (ret.op = "segment.writeAll" /\ ret.err = "nil")
    => \E p1 \in {ret.positions[1]}, p2 \in {ret.positions[2]} :
        /\ \/ p2.BlockNumber > p1.BlockNumber
           \/ p2.BlockNumber = p1.BlockNumber /\ p2.ChunkOffset > p1.ChunkOffset
        /\ fileOffset(p2) >= fileOffset(p1) + p1.ChunkSize
        /\ \A stale \in StaleBytes :
               readInternal(ret.seg, ret.file, p1.BlockNumber, p1.ChunkOffset, stale).next
                   = ChunkPosition(ret.seg.id, p2.BlockNumber, p2.ChunkOffset, 0, 0)

\* the first record of a batch ended less than a header before the end of
\* its block: the second starts the next block, past the padding, where
\* the read of the first says the next record is
C38_Witness ==
    /\ ret.op = "segment.writeAll"
    /\ ret.err = "nil"
    /\ fileOffset(ret.positions[2]) > fileOffset(ret.positions[1]) + ret.positions[1].ChunkSize
    /\ ret.positions[2].ChunkOffset = 0
    /\ ret.positions[2].BlockNumber = ret.positions[1].BlockNumber + 1
    /\ \A stale \in StaleBytes :
           readInternal(ret.seg, ret.file, ret.positions[1].BlockNumber,
                        ret.positions[1].ChunkOffset, stale).next.BlockNumber
               = ret.positions[2].BlockNumber
\* C39: Buffering during a flush loses nothing.  With PendingWrites
\* running while a WriteAll is in progress, WriteAll does not crash, and
\* when it has returned nil every record handed to PendingWrites is among
\* the records it or an earlier WriteAll wrote or is still in the buffer,
\* and the nonce file holds one nonce per written record.
C39_FlushLosesNothing ==
    /\ (ret.op = "WriteAll") => ret.err # "panic"
    /\ (ret.op = "WriteAll" /\ ret.err = "nil")
       => /\ handed = Len(written) + Len(pendingWrites)
          /\ Len(nonceBytes) = nonceSize * Len(written)

\* a WriteAll that wrote one record returned nil with an empty buffer
\* although two records had been handed to PendingWrites
C39_Witness ==
    /\ ret.op = "WriteAll"
    /\ ret.err = "nil"
    /\ Len(ret.positions) = 1
    /\ handed = 2
    /\ Len(written) = 1
    /\ pendingWrites = <<>>
\* C40: NewReaderWithStart cannot deadlock against a writer.  In every
\* interleaving of a NewReaderWithStart with a Write, WriteAll, Sync or
\* Close of another goroutine, the reader creation eventually returns and
\* the writer call eventually returns.
C40_BothReturn ==
    /\ ("reader" \in DOMAIN calls) ~> ("reader" \notin DOMAIN calls)
    /\ ("writer" \in DOMAIN calls) ~> ("writer" \notin DOMAIN calls)

\* NewReaderWithStart holds its RLock and waits in NewReaderWithMax for
\* the second one, behind a Lock that waits for the first to be released
C40_Witness ==
    /\ "reader" \in DOMAIN calls
    /\ "writer" \in DOMAIN calls
    /\ calls["reader"].pc = "NewReader"
    /\ calls["writer"].pc = "Lock"
    /\ readersHeld = 1
    /\ ~ENABLED NextLock
====
